---- MODULE Spec2Model ----
(***************************************************************************)
(* goga: ephemeral key cache, key distribution endpoint, decryption        *)
(* middleware (token lookup) and the streaming script injector; the body   *)
(* the middleware hands to the next handler, the JSON end finder and the   *)
(* WebSocket relay.                                                        *)
(*                                                                         *)
(* Time is a discrete clock `now`; time.Time.After is the strict order >.  *)
(* A critical section under KeyCache.mu is one atomic action; the steps of *)
(* Get that run outside the lock are separate actions, so Set, other Gets, *)
(* the sweeper and the clock interleave with them.                         *)
(***************************************************************************)
EXTENDS Naturals, Integers, Sequences, FiniteSets, TLC

\* ---------------------------------------------------------------- bounds
MaxTime == 2
MaxSets == 2
TTL == 1
MaxStopCalls == 2
MaxPieces == 3
MaxP == 3
BufSize == 8
MaxBodySize == 10
MaxByte == 2
MaxPlainLen == 3
MaxJsonLen == 6
MaxWsBytes == 2
MaxHeld == 2
MaxCopiers == 3

Tokens == {"t1", "t2"}
Reqs == {"r1", "r2"}

VARIABLES
    \* KeyCache
    now,            \* time.Now()
    items,          \* kc.items: token -> cacheEntry
    stopClosed,     \* kc.stop has been closed
    sweeperPc,      \* cleanupLoop: "loop" | "exited"
    stopCalls,      \* number of calls of Stop made so far
    \* Router.keyDistributionHandler
    kd,             \* the latest handler invocation: pc, status, code, key, token
    setLog,         \* history: the k-th Set stored key k, under setLog[k].token at setLog[k].at
    \* DecryptionMiddleware requests
    req,
    \* scriptInjector and its upstream reader and consumer
    body,           \* the bytes the upstream body holds
    script,         \* si.script
    upMode,         \* what the upstream reader may return besides data and EOF
    upPos,          \* bytes of body the upstream reader has returned
    si,             \* the scriptInjector's fields
    out,            \* the bytes the consumer has received
    rdState,        \* the consumer: "reading", or what ended its loop
    \* NewProxy: proxy.ModifyResponse
    encEnabled,     \* config.Encryption.Enabled
    resp,           \* the upstream response: status, Content-Type, headers
    hook,           \* what ModifyResponse made of resp.Body, and the limit on it
    pipe,           \* the read side of io.Pipe: the bytes delivered, and its end
    rb,             \* which of the readers behind resp.Body have been closed
    \* DecryptionMiddleware: the body handed to the next handler
    inReq,          \* the request as it arrives: kind, path policy, bytes, Content-Length
    dr,             \* the decryptReader: state, contentType, payloadBuf
    fwd,            \* the request as next.ServeHTTP has it, and what next has read
    \* findJSONEnd
    finder,         \* a call: its argument and its result
    \* NewWebsocketProxy, handleWebSocketProxy, transferStreams
    ws,             \* the handler: the request, the configuration, its position
    ctxDone,        \* r.Context() is done
    conn,           \* clientConn and backendConn, and the peers' ends
    relay,          \* the goroutines of transferStreams
    stream,         \* the bytes written, buffered, taken and delivered
    \* BufferPool
    bufPool,        \* the slices each sync.Pool holds
    held,           \* the slices callers hold, each with the class it came from
    lastGet,        \* what the latest Get returned
    \* KeyCache.Stop, statement by statement
    stopper,        \* where each caller of Stop stands, and the closes made
    \* copyBufPool
    copyPool        \* the buffers the pool holds and those its users hold

\* the body path of the middleware
bodyVars == <<inReq, dr, fwd>>

\* what neither the cache and its handlers nor the injector and the hook touch
\* the WebSocket proxy
wsVars == <<ws, ctxDone, conn, relay, stream>>

\* the buffer pool of the middleware
poolVars == <<bufPool, held, lastGet>>

\* the callers of Stop, and the pool of copy buffers
lateVars == <<stopper, copyPool>>

otherVars == <<bodyVars, finder, wsVars, poolVars, lateVars>>

\* the variables of the injector, which the cache and the handlers leave alone
injVars == <<body, script, upMode, upPos, si, out, rdState, encEnabled, resp, hook, pipe,
            rb, otherVars>>

\* the injector and the hook
rewriteVars == <<body, script, upMode, upPos, si, out, rdState, encEnabled, resp, hook, pipe,
                rb>>

\* the response and the configuration, which reading a body leaves alone
respVars == <<body, script, upMode, encEnabled, resp>>

\* the variables of the cache and the handlers, which the injector leaves alone
cacheVars == <<now, items, stopClosed, sweeperPc, stopCalls, kd, setLog, req,
              otherVars>>

\* the cache, the handlers, the injector and the hook, which the rest leaves alone
gatewayVars == <<now, items, stopClosed, sweeperPc, stopCalls, kd, setLog, req,
                body, script, upMode, upPos, si, out, rdState,
                encEnabled, resp, hook, pipe, rb>>

vars == <<gatewayVars, otherVars>>

\* ------------------------------------------------------------- KeyCache

\* time.Time.After
After(a, b) == a > b

NoEntry == [key |-> 0, expiresAt |-> 0]

\* kc.items[token] = cacheEntry{key, expiresAt}
MapPut(m, token, e) ==
    [t \in (DOMAIN m) \cup {token} |-> IF t = token THEN e ELSE m[t]]

\* delete(kc.items, token)
MapDelete(m, token) == [t \in (DOMAIN m) \ {token} |-> m[t]]

\* Set that stamps the entry with the current instant, the TTL left out
CacheSetNoTTL(m, token, key, ttl, t) ==
    MapPut(m, token, [key |-> key, expiresAt |-> t])

\* KeyCache.Set, under kc.mu.Lock()
CacheSet(m, token, key, ttl, t) ==
    MapPut(m, token, [key |-> key, expiresAt |-> t + ttl])

\* a map read that ignores the token and yields any stored entry
ReadEntryAny(m, token) ==
    IF DOMAIN m = {} THEN [found |-> FALSE, entry |-> NoEntry]
    ELSE [found |-> TRUE,
          entry |-> m[CHOOSE x \in DOMAIN m : \A y \in DOMAIN m : m[y].key <= m[x].key]]

\* the map read of Get: entry, found := kc.items[token]
ReadEntry(m, token) ==
    IF token \in DOMAIN m
    THEN [found |-> TRUE, entry |-> m[token]]
    ELSE [found |-> FALSE, entry |-> NoEntry]

\* the clock advances
Tick ==
    /\ now < MaxTime
    /\ now' = now + 1
    /\ UNCHANGED <<items, stopClosed, sweeperPc, stopCalls, kd, setLog, req, injVars>>

\* a sweep that stops at the first expired entry it deletes
SweepResultFirstOnly(m, t) ==
    LET ex == {x \in DOMAIN m : After(t, m[x].expiresAt)}
    IN  IF ex = {} THEN m ELSE MapDelete(m, CHOOSE x \in ex : TRUE)

\* KeyCache.deleteExpired: the map after one sweep at time t
SweepResult(m, t) ==
    [tk \in {x \in DOMAIN m : ~After(t, m[x].expiresAt)} |-> m[tk]]

\* cleanupLoop, case <-ticker.C: kc.deleteExpired()
DeleteExpired ==
    /\ sweeperPc = "loop"
    /\ items' = SweepResult(items, now)
    /\ UNCHANGED <<now, stopClosed, sweeperPc, stopCalls, kd, setLog, req, injVars>>

\* case <-kc.stop with a break that leaves the select, not the loop
SweeperExitBreak ==
    /\ sweeperPc = "loop"
    /\ stopClosed
    /\ UNCHANGED <<now, items, stopClosed, sweeperPc, stopCalls, kd, setLog, req, injVars>>

\* cleanupLoop, case <-kc.stop: return
SweeperExit ==
    /\ sweeperPc = "loop"
    /\ stopClosed
    /\ sweeperPc' = "exited"
    /\ UNCHANGED <<now, items, stopClosed, stopCalls, kd, setLog, req, injVars>>

\* KeyCache.Stop: select { case <-kc.stop: return; default: close(kc.stop) }
Stop ==
    /\ stopCalls < MaxStopCalls
    /\ stopCalls' = stopCalls + 1
    /\ stopClosed' = TRUE
    /\ UNCHANGED <<now, items, sweeperPc, kd, setLog, req, injVars>>

\* the goroutines that call Stop
Callers == {"c1", "c2"}

StopperIdle == [pc |-> [c \in Callers |-> "idle"], closes |-> 0]

\* Stop, the select: a closed channel is ready to be received from and the
\* call returns; an open one leaves the default case
StopSelect(c) ==
    /\ stopCalls < MaxStopCalls
    /\ stopper.pc[c] \in {"idle", "returned"}
    /\ stopCalls' = stopCalls + 1
    /\ stopper' = [stopper EXCEPT !.pc[c] = IF stopClosed THEN "returned" ELSE "default"]
    /\ UNCHANGED <<now, items, stopClosed, sweeperPc, kd, setLog, req, rewriteVars,
                   bodyVars, finder, wsVars, poolVars, copyPool>>

\* Stop, the default case: close(kc.stop), which panics on a closed channel
StopClose(c) ==
    /\ stopper.pc[c] = "default"
    /\ stopper' = [stopper EXCEPT !.pc[c] = IF stopClosed THEN "panic" ELSE "returned",
                                  !.closes = @ + 1]
    /\ stopClosed' = TRUE
    /\ UNCHANGED <<now, items, sweeperPc, stopCalls, kd, setLog, req, rewriteVars,
                   bodyVars, finder, wsVars, poolVars, copyPool>>

\* ------------------------------------------- Router.keyDistributionHandler

KdIdle == [pc |-> "idle", status |-> 0, code |-> "", key |-> 0, token |-> ""]

\* a request with a method other than GET: 405
KdMethodNotAllowed ==
    /\ kd.pc # "set"
    /\ kd' = [KdIdle EXCEPT !.pc = "done", !.status = 405, !.code = "METHOD_NOT_ALLOWED"]
    /\ UNCHANGED <<now, items, stopClosed, sweeperPc, stopCalls, setLog, req, injVars>>

\* rand.Read fails for the key or for the token: 500
KdRandFailure ==
    /\ kd.pc # "set"
    /\ \E c \in {"KEY_GENERATION_FAILED", "TOKEN_GENERATION_FAILED"} :
           kd' = [KdIdle EXCEPT !.pc = "done", !.status = 500, !.code = c]
    /\ UNCHANGED <<now, items, stopClosed, sweeperPc, stopCalls, setLog, req, injVars>>

\* rand.Read: every call of the handler draws a key no earlier call drew
NextKey == Len(setLog) + 1

\* the last Set of a token: its key and instant (key 0: never set)
LastSet(token) ==
    LET ks == {k \in 1..Len(setLog) : setLog[k].token = token}
    IN  IF ks = {} THEN [key |-> 0, at |-> 0]
        ELSE LET k == CHOOSE x \in ks : \A y \in ks : y <= x
             IN  [key |-> k, at |-> setLog[k].at]

\* GET: fresh key, random token, r.keyCache.Set(token, onetimeKey, r.keyCacheTTL)
KdIssue ==
    /\ kd.pc # "set"
    /\ NextKey <= MaxSets
    /\ \E token \in Tokens :
        /\ items' = CacheSet(items, token, NextKey, TTL, now)
        /\ setLog' = Append(setLog, [token |-> token, at |-> now])
        /\ kd' = [KdIdle EXCEPT !.pc = "set", !.key = NextKey, !.token = token]
    /\ UNCHANGED <<now, stopClosed, sweeperPc, stopCalls, req, injVars>>

\* w.WriteHeader(200); json.NewEncoder(w).Encode(response)
KdRespond ==
    /\ kd.pc = "set"
    /\ kd' = [kd EXCEPT !.pc = "done", !.status = 200]
    /\ UNCHANGED <<now, items, stopClosed, sweeperPc, stopCalls, setLog, req, injVars>>

\* ------------------------------------------------- DecryptionMiddleware

ReqIdle ==
    [pc |-> "idle", tok |-> "", encKey |-> 0, entry |-> NoEntry,
     getStart |-> 0, startSeq |-> 0, priorKeys |-> {},
     outcome |-> "", gotKey |-> 0, viaLock |-> FALSE, fresh |-> FALSE,
     window |-> "", setKey |-> 0,
     class |-> "", mandatory |-> FALSE, enc |-> "sealed", counted |-> {},
     env |-> <<"{", "}">>, calls |-> [errs |-> 0, nexts |-> 0]]

\* keys that earlier requests with this token, already forwarded, decrypted with
PriorKeys(token) ==
    {req[q].gotKey : q \in {x \in Reqs : /\ req[x].pc = "done"
                                          /\ req[x].tok = token
                                          /\ req[x].outcome = "forwarded"}}

\* the keys a client may have encrypted with: none it knows (0), or the key
\* issued with the token
ClientKeys(token) ==
    {0} \cup (IF LastSet(token).key # 0 THEN {LastSet(token).key} ELSE {})

\* where a lookup that ran from q.getStart to t lies relative to the one Set of
\* its token made before it began and not repeated since: "within" [at, at+ttl),
\* "at" the expiry instant, "past" it, or "" (none of these)
Window(q, t) ==
    LET L == LastSet(q.tok)
    IN  IF L.key = 0 \/ L.key >= q.startSeq THEN ""
        ELSE IF t < L.at + TTL THEN "within"
        ELSE IF q.getStart > L.at + TTL THEN "past"
        ELSE IF q.getStart = L.at + TTL THEN "at"
        ELSE ""

\* the record of a finished request: only its results are kept
Finished(q, t) ==
    [ReqIdle EXCEPT !.pc = "done", !.tok = q.tok, !.priorKeys = q.priorKeys,
                    !.class = q.class, !.mandatory = q.mandatory, !.enc = q.enc,
                    !.env = q.env,
                    !.window = Window(q, t),
                    !.setKey = IF Window(q, t) = "" THEN 0 ELSE LastSet(q.tok).key]

\* the outcomes that are a call of the next handler
Forwarded == {"forwarded", "forwarded_plain"}

\* a handler whose error paths lack the return
CallsNoReturn(outcome) ==
    [errs |-> IF outcome \in Forwarded THEN 0 ELSE 1, nexts |-> 1]

\* the calls a path through the handler makes: WriteJSONError and return, or
\* next.ServeHTTP as its last statement
Calls(outcome) ==
    IF outcome \in Forwarded THEN [errs |-> 0, nexts |-> 1]
    ELSE [errs |-> 1, nexts |-> 0]

\* a handler that answers 401 and goes on to the next handler all the same
RejectedNoReturn(q, t) ==
    [Finished(q, t) EXCEPT !.outcome = "forwarded", !.calls = [errs |-> 1, nexts |-> 1]]

\* DecryptMetrics.RecordDecryptFailure: the counters a call increments
RecordDecryptFailure(errorType) ==
    {"FailedRequests"} \cup
        (CASE errorType = "token" -> {"TokenErrors"}
           [] errorType = "decrypt" -> {"DecryptErrors"}
           [] errorType = "format" -> {"FormatErrors"}
           [] OTHER -> {})

\* Get returns (nil, false): 401 INVALID_TOKEN
Rejected(q, t) ==
    [Finished(q, t) EXCEPT !.outcome = "INVALID_TOKEN",
                           !.calls = Calls("INVALID_TOKEN"),
                           !.counted = RecordDecryptFailure("token")]

\* ------------------------------------------------------------ findJSONEnd

\* the bytes an input is made of: braces, the quote, the backslash, and the
\* space, which is white space before the object and an ordinary byte after
JsonBytes == {"{", "}", "\"", "\\", " "}
JsonInputs == UNION {[1..k -> JsonBytes] : k \in 0..MaxJsonLen}

Whitespace == {" ", "\t", "\n", "\r"}

\* data[i], indexed from 0 as a slice is
At(data, i) == data[i + 1]

\* the loop that skips leading white space: the value of start after it
RECURSIVE SkipSpace(_, _)
SkipSpace(data, start) ==
    IF start < Len(data) /\ At(data, start) \in Whitespace
    THEN SkipSpace(data, start + 1)
    ELSE start

\* the byte that makes the loop skip the byte after it
IsEscapeNever(c) == FALSE
IsEscape(c) == c = "\\"

\* the counting loop from index i on
RECURSIVE Scan(_, _, _, _, _)
Scan(data, i, braceCount, inString, escaped) ==
    IF i >= Len(data) THEN -1
    ELSE LET c == At(data, i)
         IN  IF escaped THEN Scan(data, i + 1, braceCount, inString, FALSE)
             ELSE IF IsEscape(c) THEN Scan(data, i + 1, braceCount, inString, TRUE)
             ELSE IF c = "\"" THEN Scan(data, i + 1, braceCount, ~inString, FALSE)
             ELSE IF ~inString /\ c = "{"
                  THEN Scan(data, i + 1, braceCount + 1, inString, FALSE)
             ELSE IF ~inString /\ c = "}"
                  THEN IF braceCount - 1 = 0 THEN i
                       ELSE Scan(data, i + 1, braceCount - 1, inString, FALSE)
             ELSE Scan(data, i + 1, braceCount, inString, FALSE)

findJSONEnd(data) ==
    IF Len(data) = 0 THEN -1
    ELSE LET start == SkipSpace(data, 0)
         IN  IF start >= Len(data) \/ At(data, start) # "{" THEN -1
             ELSE Scan(data, start, 0, FALSE, FALSE)

\* the envelopes of encrypted requests, brace by brace, the fields and their
\* values left out: a flat object, one with a nested object, one with a } in
\* a string value
Envelopes ==
    {<<"{", "}">>,
     <<"{", "{", "}", "}">>,
     <<"{", "\"", "}", "\"", "}">>}

\* decryptReader.parseJSON reads the source byte by byte up to the first }:
\* the index of that byte, -1 when there is none
FirstClose(data) ==
    IF \E i \in 0..(Len(data) - 1) : At(data, i) = "}"
    THEN CHOOSE i \in 0..(Len(data) - 1) :
             /\ At(data, i) = "}"
             /\ \A j \in 0..(i - 1) : At(data, j) # "}"
    ELSE -1

\* json.Unmarshal of the bytes read and the check of the two fields succeed
\* when the bytes are the whole object
ReaderEnvelopeOK(data) == FirstClose(data) = findJSONEnd(data)

\* what the encrypted field of a request may hold: the base64 of a payload
\* sealed under the client's key, text that is not base64, a sealed payload
\* changed on the way, a sealed payload whose frame is too short
Payloads == {"sealed", "badb64", "tampered", "badframe"}

\* a middleware that forwards without looking at the error of the first Read
ObtainedNoErrorCheck(q, e, t, locked) ==
    [Finished(q, t) EXCEPT
        !.outcome = "forwarded",
        !.calls = Calls("forwarded"),
        !.gotKey = e.key, !.fresh = ~After(t, e.expiresAt), !.viaLock = locked]

\* Get returns (entry.key, true); the first Read of newDecryptReader(peekReader,
\* key) decodes the base64, opens the ciphertext, which authenticates only
\* under the key it was sealed with and only unchanged, and parses the frame,
\* all that after it has read and parsed the envelope in its own way;
\* any error of it but io.EOF is answered 400 DECRYPTION_FAILED
Obtained(q, e, t, locked) ==
    [Finished(q, t) EXCEPT
        !.outcome = IF ReaderEnvelopeOK(q.env) /\ q.enc = "sealed" /\ e.key = q.encKey
                    THEN "forwarded" ELSE "DECRYPTION_FAILED",
        !.calls = IF ReaderEnvelopeOK(q.env) /\ q.enc = "sealed" /\ e.key = q.encKey
                  THEN Calls("forwarded") ELSE Calls("DECRYPTION_FAILED"),
        !.counted = IF ReaderEnvelopeOK(q.env) /\ q.enc = "sealed" /\ e.key = q.encKey
                    THEN {} ELSE RecordDecryptFailure("decrypt"),
        !.gotKey = e.key, !.fresh = ~After(t, e.expiresAt), !.viaLock = locked]

\* the middleware up to Get's read under RLock
ReqBegin(r) ==
    /\ req[r].pc = "idle"
    /\ \E token \in Tokens : \E k \in ClientKeys(token) :
        LET q == [ReqIdle EXCEPT !.tok = token, !.encKey = k, !.getStart = now,
                                 !.startSeq = NextKey, !.priorKeys = PriorKeys(token),
                                 !.class = "encrypted"]
            rd == ReadEntry(items, token)
        IN  req' = [req EXCEPT ![r] =
                IF rd.found THEN [q EXCEPT !.pc = "check", !.entry = rd.entry]
                ELSE Rejected(q, now)]
    /\ UNCHANGED <<now, items, stopClosed, sweeperPc, stopCalls, kd, setLog, injVars>>

\* a plain-text handler that forwards whatever the path
HandlePlainTextNoPolicy(mandatory) == "forwarded_plain"

\* handlePlainTextRequest: 422 ENCRYPTION_REQUIRED on a path that matches a
\* must-encrypt pattern, next.ServeHTTP otherwise
HandlePlainText(mandatory) ==
    IF mandatory THEN "ENCRYPTION_REQUIRED" ELSE "forwarded_plain"

\* the record of a request answered before any lookup; no failure is recorded
\* on these paths
Answered(class, mandatory, outcome) ==
    [ReqIdle EXCEPT !.pc = "done", !.class = class, !.mandatory = mandatory,
                    !.outcome = outcome, !.calls = Calls(outcome)]

\* the status written with an outcome by WriteJSONError; 0: none, the request
\* went to the next handler
Status(outcome) ==
    CASE outcome \in {"forwarded", "forwarded_plain"} -> 0
      [] outcome = "ENCRYPTION_REQUIRED" -> 422
      [] outcome = "INVALID_TOKEN" -> 401
      [] outcome \in {"MALFORMED_PAYLOAD", "INCOMPLETE_PAYLOAD", "DECRYPTION_FAILED"} -> 400
      [] OTHER -> 500

\* the middleware from the arrival of any request up to Get's read under
\* RLock. post, json: the method is POST, the Content-Type contains
\* application/json; mandatory: the path matches a compiled must-encrypt
\* pattern; detect: what DetectEncryptedRequest returns; readOK: io.ReadAll of
\* a plain body succeeds; head: what Peek(8192), findJSONEnd, json.Unmarshal
\* and the check of the two fields make of the beginning of the body, "ok"
\* standing for an envelope env that findJSONEnd delimits and that has both
\* fields
MwArrive(r) ==
    /\ req[r].pc = "idle"
    /\ \E post, json, mandatory, readOK \in BOOLEAN :
       \E detect \in {"err", "plain", "encrypted"} :
       \E head \in {"peekerr", "nojson", "badjson", "incomplete", "ok"} :
       \E token \in Tokens : \E k \in ClientKeys(token) : \E enc \in Payloads :
       \E env \in Envelopes :
          req' = [req EXCEPT ![r] =
            IF ~post \/ ~json
            THEN Answered("plain", mandatory, HandlePlainText(mandatory))
            ELSE IF detect = "err"
            THEN Answered("", mandatory, "REQUEST_DETECTION_FAILED")
            ELSE IF detect = "plain"
            THEN IF readOK
                 THEN Answered("plain", mandatory, HandlePlainText(mandatory))
                 ELSE Answered("plain", mandatory, "BODY_READ_FAILED")
            ELSE IF head = "peekerr"
            THEN Answered("encrypted", mandatory, "HEADER_READ_FAILED")
            ELSE IF head \in {"nojson", "badjson"}
            THEN Answered("encrypted", mandatory, "MALFORMED_PAYLOAD")
            ELSE IF head = "incomplete"
            THEN Answered("encrypted", mandatory, "INCOMPLETE_PAYLOAD")
            ELSE LET q == [ReqIdle EXCEPT !.tok = token, !.encKey = k, !.getStart = now,
                                          !.startSeq = NextKey,
                                          !.priorKeys = PriorKeys(token),
                                          !.class = "encrypted",
                                          !.mandatory = mandatory, !.enc = enc,
                                          !.env = env]
                     rd == ReadEntry(items, token)
                 IN  IF rd.found THEN [q EXCEPT !.pc = "check", !.entry = rd.entry]
                     ELSE Rejected(q, now)]
    /\ UNCHANGED <<now, items, stopClosed, sweeperPc, stopCalls, kd, setLog, injVars>>

\* Get that returns the entry it read without looking at its expiry
GetCheckNoExpiry(r) ==
    /\ req[r].pc = "check"
    /\ req' = [req EXCEPT ![r] = Obtained(req[r], req[r].entry, now, FALSE)]
    /\ UNCHANGED <<now, items, stopClosed, sweeperPc, stopCalls, kd, setLog, injVars>>

\* Get, outside the lock: if time.Now().After(entry.expiresAt)
GetCheck(r) ==
    /\ req[r].pc = "check"
    /\ req' = [req EXCEPT ![r] =
            IF After(now, req[r].entry.expiresAt)
            THEN [req[r] EXCEPT !.pc = "lock", !.entry = NoEntry]
            ELSE Obtained(req[r], req[r].entry, now, FALSE)]
    /\ UNCHANGED <<now, items, stopClosed, sweeperPc, stopCalls, kd, setLog, injVars>>

\* Get that, once it saw an expired entry, deletes under the lock without
\* looking again
GetLockedNoRecheck(r) ==
    /\ req[r].pc = "lock"
    /\ items' = MapDelete(items, req[r].tok)
    /\ req' = [req EXCEPT ![r] = Rejected(req[r], now)]
    /\ UNCHANGED <<now, stopClosed, sweeperPc, stopCalls, kd, setLog, injVars>>

\* Get, under kc.mu.Lock(): re-read, re-check, delete
GetLocked(r) ==
    /\ req[r].pc = "lock"
    /\ LET rd == ReadEntry(items, req[r].tok)
           expired == rd.found /\ After(now, rd.entry.expiresAt)
       IN  /\ items' = IF expired THEN MapDelete(items, req[r].tok) ELSE items
           /\ req' = [req EXCEPT ![r] =
                  IF rd.found /\ ~expired
                  THEN Obtained(req[r], rd.entry, now, TRUE)
                  ELSE Rejected(req[r], now)]
    /\ UNCHANGED <<now, stopClosed, sweeperPc, stopCalls, kd, setLog, injVars>>

\* ------------------------------------------------------- scriptInjector

\* si.searchTag
Tag == <<"<", "/", "b", "o", "d", "y", ">">>

\* the bodies: up to MaxPieces pieces, each plain text, the start of a tag, or
\* the tag
Pieces == {<<"x">>, <<"<", "/", "b">>, Tag}

RECURSIVE BodiesOf(_)
BodiesOf(n) ==
    IF n = 0 THEN {<< >>}
    ELSE BodiesOf(n - 1) \cup {b \o p : b \in BodiesOf(n - 1), p \in Pieces}

Bodies == BodiesOf(MaxPieces)

\* config.ScriptInjection.ScriptContent
Scripts == {<< >>, <<"S", "T">>}

Min(a, b) == IF a < b THEN a ELSE b

\* bytes.Index(s, sep): the offset of the first occurrence of sep in s, or -1
Index(s, sep) ==
    LET hits == {i \in 0..(Len(s) - Len(sep)) : SubSeq(s, i + 1, i + Len(sep)) = sep}
    IN  IF hits = {} THEN -1 ELSE CHOOSE i \in hits : \A j \in hits : i <= j

\* s[from:to] of Go: the bytes at offsets from .. to-1
Slice(s, from, to) == SubSeq(s, from + 1, to)

\* NewScriptInjector. buffer holds the valid bytes si.buffer[0:si.bufferEnd]:
\* Read never looks at a byte of si.buffer at or beyond si.bufferEnd
SiInit ==
    [state |-> "searching", buffer |-> << >>, searchPos |-> 0,
     scriptReadPos |-> 0, tagReadPos |-> 0, upstreamEOF |-> FALSE]

\* si.bufferEnd
BufferEnd(s) == Len(s.buffer)

\* a Read that holds nothing back
HoldBackNothing == Len(Tag) - Len(Tag)

\* a tail one byte short: a tag all but whose last byte is buffered is let go
HoldBackShort == Len(Tag) - 2

\* the bytes Read holds back at the tail of the buffer: len(si.searchTag) - 1
HoldBack == Len(Tag) - 1

\* the content codings getDecompressionReader and getCompressionWriter know
Supported == {"gzip", "br", "zstd", "lz4"}

\* the Content-Encoding of an upstream response: none, two of the supported
\* codecs, and one the gateway does not know
Encodings == {"", "gzip", "zstd", "deflate"}

\* the mark that ends an encoded stream
Trailer == "$"

\* content d as an encoded stream: a header that names the codec, the
\* content, the trailer; no encoding leaves d as it is
Encode(enc, d) == IF enc = "" THEN d ELSE <<enc>> \o d \o <<Trailer>>

\* z is a whole stream of codec enc: its header first, the trailer last
Complete(enc, z) == Len(z) >= 2 /\ z[1] = enc /\ z[Len(z)] = Trailer

\* the content a decompressing reader yields from z, an encoded stream or the
\* beginning of one
Payload(z) ==
    IF Len(z) <= 1 THEN << >>
    ELSE IF z[Len(z)] = Trailer THEN Slice(z, 1, Len(z) - 1)
    ELSE Slice(z, 1, Len(z))

\* what a client makes of the stream z under Content-Encoding enc: the
\* content, or a failure for a stream that is not whole
Decode(enc, z) ==
    IF enc = "" THEN z
    ELSE IF Complete(enc, z) THEN Payload(z)
    ELSE <<"!">>

\* a compressor that writes its input through, as for no encoding
CompressNop(enc, d) == d

\* all that the writer of getCompressionWriter(enc, pw) writes for input d,
\* its Close included
Compress(enc, d) == Encode(enc, d)

\* resp.Body as upstream sent it
Wire == Encode(resp.encoding, body)

\* io.LimitedReader{R: z, N: lim}: the bytes it lets through
Limited(z, lim) == Slice(z, 0, Min(Len(z), lim))

\* the N of a reader that is not limited: the longest body there is
NoLimit == MaxPieces * Len(Tag)

\* the bytes si.upstreamReader yields: the limited body, decompressed when
\* the hook put a decompressing reader in between
Src ==
    IF hook.path = "recompress" THEN Payload(Limited(Wire, hook.limit))
    ELSE Limited(Wire, hook.limit)

\* how si.upstreamReader ends: io.EOF, or the error of a decompressor whose
\* input ends before the stream does
SrcEnd ==
    IF hook.path = "recompress" /\ ~Complete(resp.encoding, Limited(Wire, hook.limit))
    THEN "err" ELSE "EOF"

\* what upstreamReader.Read(buf) with len(buf) = space may return, as the
\* io.Reader contract has it: n bytes (n <= space), with no error, with
\* io.EOF at the end of the body, or another error; n = 0 with no error only
\* from a reader that does that (or for an empty buf). An io.LimitedReader
\* whose N is used up returns io.EOF with no bytes.
UpOK(space, n, e) ==
    LET rem == Len(Src) - upPos
        cut == hook.path # "recompress" /\ Len(Wire) > hook.limit
    IN  /\ n <= space /\ n <= rem
        /\ \/ e = "nil" /\ n > 0
           \/ e = "nil" /\ n = 0 /\ (upMode = "zero" \/ space = 0)
           \/ e = "EOF" /\ n = rem /\ SrcEnd = "EOF" /\ (cut => n = 0)
           \/ e = "err" /\ n = 0 /\ (upMode = "fail" \/ (SrcEnd = "err" /\ rem = 0))

\* the n bytes the upstream reader returns next
UpData(n) == Slice(Src, upPos, Min(upPos + n, Len(Src)))

\* the result of a Read call: the injector after it, the bytes copied to p,
\* the error returned, whether upstream was read, and whether what it
\* returned was something it may return
Ret(s, data, e, used, ok) ==
    [si |-> s, data |-> data, err |-> e, used |-> used, ok |-> ok]

\* a copy that moves no byte
CopyNNothing(plen, src) == 0

\* n = copy(p, src)
CopyN(plen, src) == Min(plen, Len(src))

\* a Read that starts searching again once the tag is out
AfterTagSearching == "searching"

\* the state Read moves to once the whole tag is emitted: statePassthrough
AfterTag == "passthrough"

\* scriptInjector.Read(p) with len(p) = plen; (n, e) is what the one call of
\* upstreamReader.Read made by this Read returns. Each unfolding is one turn
\* of the for loop.
RECURSIVE ReadLoop(_, _, _, _)
ReadLoop(s, plen, n, e) ==
    CASE s.state = "injectingScript" ->
            IF s.scriptReadPos >= Len(script)
            THEN ReadLoop([s EXCEPT !.state = "injectingTag"], plen, n, e)
            ELSE LET c == CopyN(plen, Slice(script, s.scriptReadPos, Len(script)))
                 IN  Ret([s EXCEPT !.scriptReadPos = @ + c],
                         Slice(script, s.scriptReadPos, s.scriptReadPos + c), "nil", FALSE, TRUE)
      [] s.state = "injectingTag" ->
            IF s.tagReadPos >= Len(Tag)
            THEN ReadLoop([s EXCEPT !.state = AfterTag], plen, n, e)
            ELSE LET c == CopyN(plen, Slice(Tag, s.tagReadPos, Len(Tag)))
                 IN  Ret([s EXCEPT !.tagReadPos = @ + c],
                         Slice(Tag, s.tagReadPos, s.tagReadPos + c), "nil", FALSE, TRUE)
      [] s.state = "passthrough" ->
            IF s.searchPos < BufferEnd(s)
            THEN LET c == CopyN(plen, Slice(s.buffer, s.searchPos, BufferEnd(s)))
                 IN  Ret([s EXCEPT !.searchPos = @ + c],
                         Slice(s.buffer, s.searchPos, s.searchPos + c), "nil", FALSE, TRUE)
            ELSE IF s.upstreamEOF
            THEN Ret(s, << >>, "EOF", FALSE, TRUE)
            ELSE \* return si.upstreamReader.Read(p)
                 Ret(s, UpData(n), e, TRUE, UpOK(plen, n, e))
      [] s.state = "searching" ->
            LET \* 1. compact the buffer
                s1 == IF s.searchPos > 0
                      THEN [s EXCEPT !.buffer = Slice(s.buffer, s.searchPos, BufferEnd(s)),
                                     !.searchPos = 0]
                      ELSE s
                \* 2. fill the buffer
                fill == ~s1.upstreamEOF /\ BufferEnd(s1) < BufSize
                ok == ~fill \/ UpOK(BufSize - BufferEnd(s1), n, e)
                s2 == IF fill
                      THEN [s1 EXCEPT !.buffer = @ \o UpData(n),
                                      !.upstreamEOF = (e = "EOF") \/ (n = 0 /\ e = "nil")]
                      ELSE s1
                idx == Index(Slice(s2.buffer, s2.searchPos, BufferEnd(s2)), Tag)
                safeWriteEnd == BufferEnd(s2) - HoldBack
            IN  IF fill /\ e = "err"
                THEN Ret(s2, << >>, "err", TRUE, ok)
                ELSE IF fill /\ s2.upstreamEOF /\ BufferEnd(s2) = 0
                THEN LET r == ReadLoop([s2 EXCEPT !.state = "passthrough"], plen, n, e)
                     IN  [r EXCEPT !.used = TRUE, !.ok = ok]
                \* 3. search the tag
                ELSE IF idx # -1
                THEN IF idx > 0
                     THEN LET c == CopyN(plen, Slice(s2.buffer, s2.searchPos, s2.searchPos + idx))
                          IN  Ret([s2 EXCEPT !.searchPos = @ + c],
                                  Slice(s2.buffer, s2.searchPos, s2.searchPos + c), "nil", fill, ok)
                     ELSE LET r == ReadLoop([s2 EXCEPT !.searchPos = @ + Len(Tag),
                                                       !.state = "injectingScript"], plen, n, e)
                          IN  [r EXCEPT !.used = fill, !.ok = ok]
                \* 4. no tag, upstream at EOF
                ELSE IF s2.upstreamEOF
                THEN IF s2.searchPos < BufferEnd(s2)
                     THEN LET c == CopyN(plen, Slice(s2.buffer, s2.searchPos, BufferEnd(s2)))
                              s3 == [s2 EXCEPT !.searchPos = @ + c]
                          IN  Ret(IF s3.searchPos >= BufferEnd(s3)
                                  THEN [s3 EXCEPT !.state = "passthrough"] ELSE s3,
                                  Slice(s2.buffer, s2.searchPos, s2.searchPos + c), "nil", fill, ok)
                     ELSE LET r == ReadLoop([s2 EXCEPT !.state = "passthrough"], plen, n, e)
                          IN  [r EXCEPT !.used = fill, !.ok = ok]
                \* 5. write out the safe data
                ELSE IF BufferEnd(s2) <= Len(Tag)
                THEN Ret(s2, << >>, "nil", fill, ok)
                ELSE IF s2.searchPos < safeWriteEnd
                THEN LET c == CopyN(plen, Slice(s2.buffer, s2.searchPos, safeWriteEnd))
                     IN  Ret([s2 EXCEPT !.searchPos = @ + c],
                             Slice(s2.buffer, s2.searchPos, s2.searchPos + c), "nil", fill, ok)
                ELSE Ret(s2, << >>, "nil", fill, ok)

\* the consumer (io.Copy, the HTTP writer) calls Read with a buffer of plen
\* bytes and stops at io.EOF or an error
InjReadWith(plen, n, e) ==
    /\ hook.path \in {"inject", "recompress"}
    /\ rdState = "reading"
    /\ LET r == ReadLoop(si, plen, n, e)
       IN  /\ r.ok
           /\ r.used \/ (n = 0 /\ e = "nil")
           /\ si' = r.si
           /\ upPos' = IF r.used THEN upPos + n ELSE upPos
           /\ out' = out \o r.data
           /\ rdState' = IF r.err = "nil" THEN "reading" ELSE r.err
    /\ UNCHANGED <<respVars, hook, pipe, rb, cacheVars>>

InjRead ==
    \E plen \in 0..MaxP : \E n \in 0..BufSize : \E e \in {"nil", "EOF", "err"} :
        InjReadWith(plen, n, e)

\* a Read with a buffer that is not empty, in which upstream, if it is read,
\* returns bytes, io.EOF or an error
InjReadOn ==
    \E plen \in 1..MaxP : \E n \in 0..BufSize : \E e \in {"nil", "EOF", "err"} :
        /\ n > 0 \/ e # "nil" \/ ~ReadLoop(si, plen, n, e).used
        /\ InjReadWith(plen, n, e)

\* ------------------------------------------- NewProxy: proxy.ModifyResponse

\* the upstream responses: status, whether Content-Type contains text/html,
\* Content-Encoding, whether a Content-Length is set
Resps == [status : {200, 404}, html : BOOLEAN, encoding : Encodings, hasLen : BOOLEAN]

HookPending == [path |-> "pending", limit |-> NoLimit]
PipeOpen == [data |-> << >>, end |-> "open"]

\* the readers behind the body of a response, none of them closed: the body
\* the client side closes, the injector, the injector's upstream reader, and
\* the body as it came from the transport
RbOpen == [body |-> "open", injector |-> "open", upstream |-> "open", original |-> "open"]

\* si.upstreamReader.(io.Closer): the reader of getDecompressionReader is an
\* io.ReadCloser, the *io.LimitedReader of the uncompressed path has no Close
UpstreamIsCloser(path) == path = "recompress"

\* scriptInjector.Close: the buffer goes back to the pool and the upstream
\* reader is closed if it is an io.Closer. The Close of a decompressing reader
\* (gzip.Reader, io.NopCloser, zstd's IOReadCloser) ends the decompressor and
\* leaves the reader it reads from alone.
InjectorClose(b, path) ==
    [b EXCEPT !.injector = "closed",
              !.upstream = IF UpstreamIsCloser(path) THEN "closed" ELSE @]

\* resp.Body.Close(), once the response has been copied to the client: the
\* body is the original one, the injector, or the read side of the pipe
BodyClose ==
    /\ hook.path # "pending"
    /\ rb.body = "open"
    /\ rdState # "reading"
    /\ hook.path = "recompress" => pipe.end # "open"
    /\ rb' = CASE hook.path = "untouched" ->
                    [rb EXCEPT !.body = "closed", !.original = "closed"]
            [] hook.path = "inject" ->
                    InjectorClose([rb EXCEPT !.body = "closed"], hook.path)
            [] hook.path = "recompress" ->
                    [rb EXCEPT !.body = "closed"]
    /\ UNCHANGED <<respVars, upPos, si, out, rdState, hook, pipe, cacheVars>>

\* the condition with the status left out
EligibleAnyStatus == encEnabled /\ resp.html

\* config.Encryption.Enabled && resp.StatusCode == http.StatusOK &&
\* strings.Contains(resp.Header.Get("Content-Type"), "text/html")
Eligible == encEnabled /\ resp.status = 200 /\ resp.html

\* proxy.ModifyResponse: an eligible response loses its Content-Length and has
\* its body replaced, by the injector over the limited body or by the read
\* side of a pipe fed through decompressor, injector and compressor
ModifyResponse ==
    /\ hook.path = "pending"
    /\ IF Eligible
       THEN /\ resp' = [resp EXCEPT !.hasLen = FALSE]
            /\ hook' = [path |-> IF resp.encoding \in Supported
                                 THEN "recompress" ELSE "inject",
                        limit |-> MaxBodySize]
       ELSE /\ resp' = resp
            /\ hook' = [hook EXCEPT !.path = "untouched"]
    /\ UNCHANGED <<body, script, upMode, encEnabled, upPos, si, out, rdState, pipe, rb, cacheVars>>

\* a response the hook left alone: the client reads resp.Body as it came
CopyUntouched ==
    /\ hook.path = "untouched"
    /\ rdState = "reading"
    /\ out' = Wire
    /\ rdState' = "EOF"
    /\ UNCHANGED <<respVars, upPos, si, hook, pipe, rb, cacheVars>>

\* getCompressionWriter fails: pw.CloseWithError(err); return
WriterCreateFails ==
    /\ hook.path = "recompress"
    /\ resp.encoding = "zstd"
    /\ rdState = "reading" /\ out = << >> /\ upPos = 0 /\ si = SiInit
    /\ pipe.end = "open"
    /\ rdState' = "err"
    /\ pipe' = [data |-> << >>, end |-> "err"]
    /\ rb' = InjectorClose(rb, hook.path)
    /\ UNCHANGED <<respVars, upPos, si, out, hook, cacheVars>>

\* io.CopyBuffer: a Write to the compressor, and through it to the pipe, fails
CopyWriteError ==
    /\ hook.path = "recompress"
    /\ rdState = "reading"
    /\ rdState' = "err"
    /\ UNCHANGED <<respVars, upPos, si, out, hook, pipe, rb, cacheVars>>

\* a goroutine that closes the pipe the same way whatever io.CopyBuffer returned
PipeFinishClean ==
    /\ hook.path = "recompress"
    /\ pipe.end = "open"
    /\ rdState # "reading"
    /\ pipe' = [data |-> Compress(resp.encoding, out), end |-> "EOF"]
    /\ rb' = InjectorClose(rb, hook.path)
    /\ UNCHANGED <<respVars, upPos, si, out, rdState, hook, cacheVars>>

\* the goroutine once io.CopyBuffer has returned. No error: the deferred
\* compressionWriter.Close() writes what is left and the trailer, pw.Close()
\* ends the stream. An error: pw.CloseWithError(err) comes first, the reader
\* has the bytes the compressor had written by then, and the later Close
\* calls change nothing.
PipeFinish ==
    /\ hook.path = "recompress"
    /\ pipe.end = "open"
    /\ rdState # "reading"
    /\ IF rdState = "EOF"
       THEN pipe' = [data |-> Compress(resp.encoding, out), end |-> "EOF"]
       ELSE \E k \in 0..Len(out) : \E hdr \in BOOLEAN :
                pipe' = [data |-> IF hdr THEN <<resp.encoding>> \o Slice(out, 0, k)
                                  ELSE << >>,
                         end |-> "err"]
    /\ rb' = InjectorClose(rb, hook.path)
    /\ UNCHANGED <<respVars, upPos, si, out, rdState, hook, cacheVars>>

\* ------------------------- DecryptionMiddleware: the body handed to next

\* byte strings: a byte is a number, as the frame's first byte is a length
Bytes == 0..MaxByte
ByteSeqs == UNION {[1..k -> Bytes] : k \in 0..MaxPlainLen}

\* the Content-Type the middleware falls back to; no frame holds this value
ApplicationJson == <<MaxByte + 1>>

\* the request as it arrives. kind: "encrypted", an envelope that decodes and
\* opens under the key of its token, data being the plaintext then; "plainjson",
\* a POST of application/json the detector calls plain; "other", a request that
\* is not a POST of application/json. cl is the Content-Length it came with,
\* -1 for a chunked body.
InReqs ==
    {q \in [kind : {"encrypted", "plainjson", "other"}, mandatory : BOOLEAN,
            data : ByteSeqs, cl : -1..MaxPlainLen] :
        q.cl \in {Len(q.data), -1}}

DrNew == [state |-> "parseJSON", contentType |-> << >>,
          payloadBuf |-> [buf |-> << >>, off |-> 0]]

\* the request before the middleware has acted: the headers are those received
FwdArrived(q) ==
    [pc |-> "arrived", status |-> 0, head |-> << >>, rest |-> << >>,
     contentType |-> << >>, contentLength |-> q.cl, read |-> << >>, eof |-> FALSE]

\* decryptReader.parseJSON, the plaintext in hand: where the body starts
BodyOffsetNoLength(d) == d[1]
BodyOffset(d) == 1 + d[1]

FrameOK(d) == Len(d) >= 1 /\ Len(d) >= BodyOffset(d)

\* the reader after parseJSON, which ends in the payload state or in error
ParseFrame(d) ==
    IF FrameOK(d)
    THEN [state |-> "payload",
          contentType |-> Slice(d, 1, BodyOffset(d)),
          payloadBuf |-> [buf |-> Slice(d, BodyOffset(d), Len(d)), off |-> 0]]
    ELSE [DrNew EXCEPT !.state = "error"]

\* bytes.Buffer.Read of at most n bytes: the bytes, and the buffer afterwards
Unread(b) == Slice(b.buf, b.off, Len(b.buf))
BufRead(b, n) ==
    [data |-> Slice(b.buf, b.off, Min(b.off + n, Len(b.buf))),
     buf |-> [b EXCEPT !.off = Min(b.off + n, Len(b.buf))]]

\* the one byte of tempBuf after Read(tempBuf): make() zeroes it, Read fills
\* it when the payload has a byte
TempBuf(data) == IF data = << >> THEN <<0>> ELSE data

\* the middleware's Content-Type for the next handler
OriginalContentType(ct) == IF ct = << >> THEN ApplicationJson ELSE ct

\* the middleware from newDecryptReader on: the first Read parses the frame
\* and reads one byte; an error answers 400; otherwise the body becomes
\* MultiReader(LimitReader(tempBuf, 1), decryptReader) and next is called
MwDecrypt ==
    /\ fwd.pc = "arrived"
    /\ inReq.kind = "encrypted"
    /\ LET parsed == ParseFrame(inReq.data)
           first == BufRead(parsed.payloadBuf, 1)
       IN  IF parsed.state = "error"
           THEN /\ dr' = parsed
                /\ fwd' = [fwd EXCEPT !.pc = "answered", !.status = 400]
           ELSE /\ dr' = [parsed EXCEPT !.payloadBuf = first.buf]
                /\ fwd' = [fwd EXCEPT !.pc = "next",
                                      !.head = TempBuf(first.data),
                                      !.contentType = OriginalContentType(parsed.contentType),
                                      !.contentLength = -1]
    /\ UNCHANGED <<inReq, finder, wsVars, poolVars, lateVars, gatewayVars>>

\* the reader DetectEncryptedRequest returns: the bytes it has peeked, then
\* the bytes still in the body
PeekWindow == 2
PeekReaderAll(b) ==
    Slice(b, 0, Min(PeekWindow, Len(b))) \o Slice(b, Min(PeekWindow, Len(b)), Len(b))

\* a plain POST of application/json: the body is read whole and replaced,
\* Content-Length set to the number of bytes read
PlainBufferedKeepLength(q) == [rest |-> PeekReaderAll(q.data), contentLength |-> q.cl]
PlainBuffered(q) ==
    [rest |-> PeekReaderAll(q.data), contentLength |-> Len(PeekReaderAll(q.data))]

\* a request that is not a POST of application/json goes on as it came
PlainUntouched(q) == [rest |-> q.data, contentLength |-> q.cl]

\* a plain request: buffered if the detector looked at it, then the policy of
\* the path
MwPlain ==
    /\ fwd.pc = "arrived"
    /\ inReq.kind \in {"plainjson", "other"}
    /\ LET b == IF inReq.kind = "plainjson" THEN PlainBuffered(inReq)
                ELSE PlainUntouched(inReq)
       IN  fwd' = IF HandlePlainText(inReq.mandatory) = "ENCRYPTION_REQUIRED"
                  THEN [fwd EXCEPT !.pc = "answered", !.status = 422]
                  ELSE [fwd EXCEPT !.pc = "next", !.rest = b.rest,
                                   !.contentLength = b.contentLength]
    /\ UNCHANGED <<inReq, dr, finder, wsVars, poolVars, lateVars, gatewayVars>>

\* the next handler reads at most n bytes of r.Body: from the first reader
\* that has bytes left; EOF when none has
NextRead(n) ==
    /\ fwd.pc = "next"
    /\ ~fwd.eof
    /\ IF fwd.head # << >>
       THEN /\ fwd' = [fwd EXCEPT !.head = Slice(@, Min(n, Len(@)), Len(@)),
                                  !.read = @ \o Slice(fwd.head, 0, Min(n, Len(fwd.head)))]
            /\ dr' = dr
       ELSE IF inReq.kind = "encrypted"
       THEN LET rd == BufRead(dr.payloadBuf, n)
            IN  /\ dr' = [dr EXCEPT !.payloadBuf = rd.buf]
                /\ fwd' = [fwd EXCEPT !.read = @ \o rd.data, !.eof = (rd.data = << >>)]
       ELSE /\ fwd' = [fwd EXCEPT !.rest = Slice(@, Min(n, Len(@)), Len(@)),
                                  !.read = @ \o Slice(fwd.rest, 0, Min(n, Len(fwd.rest))),
                                  !.eof = (fwd.rest = << >>)]
            /\ dr' = dr
    /\ UNCHANGED <<inReq, finder, wsVars, poolVars, lateVars, gatewayVars>>

\* ------------------------------------------------- findJSONEnd, called

FinderIdle == [pc |-> "idle", data |-> << >>, result |-> -1]

\* a call of findJSONEnd returns
FindJSONEnd ==
    /\ finder.pc = "called"
    /\ finder' = [finder EXCEPT !.pc = "returned", !.result = findJSONEnd(finder.data)]
    /\ UNCHANGED <<gatewayVars, bodyVars, wsVars, poolVars, lateVars>>

\* ------------------------------------------------- WebSocket hijack proxy

\* the Origin header of an upgrade request: absent, one of the configured
\* origins (in any letter case), or another
Origins == {"", "listed", "other"}

\* isOriginAllowed: "*" in the configuration allows every request, a request
\* without Origin is refused, and so is one whose Origin, in lower case, is
\* not configured
IsOriginAllowedAny(allowAny, origin) == TRUE
IsOriginAllowed(allowAny, origin) ==
    IF allowAny THEN TRUE
    ELSE IF origin = "" THEN FALSE
    ELSE origin = "listed"

WsRequests ==
    [pc : {"arrived"}, upgrade : BOOLEAN, allowAny : BOOLEAN, origin : Origins,
     scheme : {"http", "https"}, status : {0}, next : {FALSE}, hijacked : {FALSE},
     dialed : {FALSE}, dialEnd : {""}, cancelInDial : {FALSE}]

WsIdle ==
    [pc |-> "idle", upgrade |-> FALSE, allowAny |-> FALSE, origin |-> "",
     scheme |-> "http", status |-> 0, next |-> FALSE, hijacked |-> FALSE,
     dialed |-> FALSE, dialEnd |-> "", cancelInDial |-> FALSE]

\* the connections: the gateway's ends ("none" before it has one) and whether
\* the peer has closed its end
ConnNone == [client |-> "none", backend |-> "none",
             clientPeer |-> "open", backendPeer |-> "open"]

\* the goroutines of transferStreams, and whether ctxMonitorDone is closed
RelayIdle == [b2c |-> "idle", c2b |-> "idle", watcher |-> "idle", monitorDone |-> FALSE]

\* the bytes: a peer's k-th byte is the number k. up, down: how many the
\* backend and the client have written; brBuf: what the handshake reader
\* holds unread; sock, downRead: how many were taken from each socket;
\* toClient, toBackend: what each peer has received
StreamIdle == [up |-> 0, brBuf |-> << >>, sock |-> 0, reader |-> "conn",
               toClient |-> << >>, down |-> 0, downRead |-> 0, toBackend |-> << >>]

\* the bytes from+1 .. to of a peer
Run(from, to) == [i \in 1..(to - from) |-> from + i]

\* Close of both connections
CloseClientOnly(c) == [c EXCEPT !.client = "closed"]

\* a Close of the two that leaves the backend connection as it is
CloseBothKeepBackend(c) == [c EXCEPT !.client = "closed"]
CloseBoth(c) == [c EXCEPT !.client = "closed", !.backend = "closed"]

\* the handler up to the dial: not an upgrade, next.ServeHTTP; origin refused,
\* 403 FORBIDDEN_ORIGIN; no hijack, 500; otherwise the client connection is
\* the handler's and the dial begins
WsArrive ==
    /\ ws.pc = "arrived"
    /\ \E hj \in {"ok", "unsupported", "failed"} :
        IF ~ws.upgrade
        THEN /\ ws' = [ws EXCEPT !.pc = "returned", !.next = TRUE]
             /\ conn' = conn
        ELSE IF ~IsOriginAllowed(ws.allowAny, ws.origin)
        THEN /\ ws' = [ws EXCEPT !.pc = "returned", !.status = 403]
             /\ conn' = conn
        ELSE IF hj # "ok"
        THEN /\ ws' = [ws EXCEPT !.pc = "returned", !.status = 500]
             /\ conn' = conn
        ELSE /\ ws' = [ws EXCEPT !.pc = "dialing", !.hijacked = TRUE, !.dialed = TRUE]
             /\ conn' = [conn EXCEPT !.client = "open"]
    /\ UNCHANGED <<ctxDone, relay, stream, gatewayVars, bodyVars, finder, poolVars, lateVars>>

\* the request's context is cancelled
Cancel ==
    /\ ~ctxDone
    /\ ws.pc \in {"dialing", "handshake", "relay"}
    /\ ctxDone' = TRUE
    /\ ws' = [ws EXCEPT !.cancelInDial = (ws.pc = "dialing")]
    /\ UNCHANGED <<conn, relay, stream, gatewayVars, bodyVars, finder, poolVars, lateVars>>

\* how the dial ends, res being what the network makes of it: DialContext
\* returns the context's error once the context is done; tls.DialWithDialer
\* is given no context
DialOutcome(scheme, cancelled, res) ==
    IF scheme # "https" /\ cancelled THEN "aborted" ELSE res

\* the dial returns; on an error the client connection is closed; otherwise
\* the request is written to the backend, and on a write error both
\* connections are closed
DialEnd ==
    /\ ws.pc = "dialing"
    /\ \E res \in {"ok", "err"} : \E written \in BOOLEAN :
        LET outcome == DialOutcome(ws.scheme, ctxDone, res)
        IN  IF outcome # "ok"
            THEN /\ ws' = [ws EXCEPT !.pc = "returned", !.dialEnd = outcome]
                 /\ conn' = CloseClientOnly(conn)
            ELSE IF ~written
            THEN /\ ws' = [ws EXCEPT !.pc = "returned", !.dialEnd = outcome]
                 /\ conn' = CloseBoth(conn)
            ELSE /\ ws' = [ws EXCEPT !.pc = "handshake", !.dialEnd = outcome]
                 /\ conn' = [conn EXCEPT !.backend = "open"]
    /\ UNCHANGED <<ctxDone, relay, stream, gatewayVars, bodyVars, finder, poolVars, lateVars>>

\* the backend writes a byte after its handshake response
BackendWrite ==
    /\ ws.pc \in {"handshake", "relay"}
    /\ conn.backendPeer = "open"
    /\ stream.up < MaxWsBytes
    /\ stream' = [stream EXCEPT !.up = @ + 1]
    /\ UNCHANGED <<ws, ctxDone, conn, relay, gatewayVars, bodyVars, finder, poolVars, lateVars>>

\* the client writes a byte once it has the handshake response
ClientWrite ==
    /\ ws.pc = "relay"
    /\ conn.clientPeer = "open"
    /\ stream.down < MaxWsBytes
    /\ stream' = [stream EXCEPT !.down = @ + 1]
    /\ UNCHANGED <<ws, ctxDone, conn, relay, gatewayVars, bodyVars, finder, poolVars, lateVars>>

\* a peer closes its end
ClientClose ==
    /\ ws.pc \in {"dialing", "handshake", "relay"}
    /\ conn.clientPeer = "open"
    /\ conn' = [conn EXCEPT !.clientPeer = "closed"]
    /\ UNCHANGED <<ws, ctxDone, relay, stream, gatewayVars, bodyVars, finder, poolVars, lateVars>>

BackendClose ==
    /\ ws.pc \in {"handshake", "relay"}
    /\ conn.backendPeer = "open"
    /\ conn' = [conn EXCEPT !.backendPeer = "closed"]
    /\ UNCHANGED <<ws, ctxDone, relay, stream, gatewayVars, bodyVars, finder, poolVars, lateVars>>

\* the reader of the backend side: the handshake reader first when it holds
\* bytes, the connection alone when it holds none
BackendReaderConnOnly(buffered) == "conn"
BackendReader(buffered) == IF buffered > 0 THEN "multi" ELSE "conn"

\* http.ReadResponse returns, having taken the response and any number of the
\* bytes behind it from the socket. An error or a status other than 101
\* closes both connections (the response other than 101 is written to the
\* client first); 101 is written to the client, and transferStreams starts
\* its goroutines
HandshakeEnd ==
    /\ ws.pc = "handshake"
    /\ \E res \in {"readerr", "non101", "101"} : \E buffered \in 0..stream.up :
       \E written \in BOOLEAN :
        IF res # "101" \/ ~written
        THEN /\ ws' = [ws EXCEPT !.pc = "returned",
                                 !.status = IF res = "non101" THEN 400 ELSE 0]
             /\ conn' = CloseBoth(conn)
             /\ UNCHANGED <<relay, stream>>
        ELSE /\ ws' = [ws EXCEPT !.pc = "relay", !.status = 101]
             /\ conn' = conn
             /\ stream' = [stream EXCEPT !.brBuf = Run(0, buffered),
                                         !.sock = buffered,
                                         !.reader = BackendReader(buffered)]
             /\ relay' = [relay EXCEPT !.b2c = "copying", !.c2b = "copying",
                                       !.watcher = "waiting"]
    /\ UNCHANGED <<ctxDone, gatewayVars, bodyVars, finder, poolVars, lateVars>>

\* what the watcher closes when the context is done
WatcherClosesClientOnly(c) == CloseClientOnly(c)
WatcherCloses(c) == CloseBoth(c)

\* the watcher's select: ctx.Done()
WatcherFire ==
    /\ relay.watcher = "waiting"
    /\ ctxDone
    /\ conn' = WatcherCloses(conn)
    /\ relay' = [relay EXCEPT !.watcher = "fired"]
    /\ UNCHANGED <<ws, ctxDone, stream, gatewayVars, bodyVars, finder, poolVars, lateVars>>

\* the watcher's select: ctxMonitorDone
WatcherExit ==
    /\ relay.watcher = "waiting"
    /\ relay.monitorDone
    /\ relay' = [relay EXCEPT !.watcher = "exited"]
    /\ UNCHANGED <<ws, ctxDone, conn, stream, gatewayVars, bodyVars, finder, poolVars, lateVars>>

\* one round of io.CopyBuffer(clientConn, backendReader): a Read that returns
\* bytes, then a Write of them; or a Read that returns an error or EOF. A
\* Read with nothing to return blocks
CopyB2C ==
    /\ relay.b2c = "copying"
    /\ LET fromBuf == stream.reader = "multi" /\ stream.brBuf # << >>
           avail == IF fromBuf THEN Len(stream.brBuf) ELSE stream.up - stream.sock
       IN  IF ~fromBuf /\ conn.backend = "closed"
           THEN /\ relay' = [relay EXCEPT !.b2c = "err"]
                /\ stream' = stream
           ELSE IF avail > 0
           THEN \E k \in 1..avail :
                LET data == IF fromBuf THEN Slice(stream.brBuf, 0, k)
                            ELSE Run(stream.sock, stream.sock + k)
                    taken == IF fromBuf
                             THEN [stream EXCEPT !.brBuf = Slice(@, k, Len(@))]
                             ELSE [stream EXCEPT !.sock = @ + k]
                IN  IF conn.client = "closed" \/ conn.clientPeer = "closed"
                    THEN /\ relay' = [relay EXCEPT !.b2c = "err"]
                         /\ stream' = taken
                    ELSE /\ relay' = relay
                         /\ stream' = [taken EXCEPT !.toClient = @ \o data]
           ELSE /\ conn.backendPeer = "closed"
                /\ relay' = [relay EXCEPT !.b2c = "eof"]
                /\ stream' = stream
    /\ UNCHANGED <<ws, ctxDone, conn, gatewayVars, bodyVars, finder, poolVars, lateVars>>

\* one round of the copy from the client to the backend, io.Copy between TCP
\* connections or io.CopyBuffer
CopyC2B ==
    /\ relay.c2b = "copying"
    /\ LET avail == stream.down - stream.downRead
       IN  IF conn.client = "closed"
           THEN /\ relay' = [relay EXCEPT !.c2b = "err"]
                /\ stream' = stream
           ELSE IF avail > 0
           THEN \E k \in 1..avail :
                LET data == Run(stream.downRead, stream.downRead + k)
                    taken == [stream EXCEPT !.downRead = @ + k]
                IN  IF conn.backend = "closed" \/ conn.backendPeer = "closed"
                    THEN /\ relay' = [relay EXCEPT !.c2b = "err"]
                         /\ stream' = taken
                    ELSE /\ relay' = relay
                         /\ stream' = [taken EXCEPT !.toBackend = @ \o data]
           ELSE /\ conn.clientPeer = "closed"
                /\ relay' = [relay EXCEPT !.c2b = "eof"]
                /\ stream' = stream
    /\ UNCHANGED <<ws, ctxDone, conn, gatewayVars, bodyVars, finder, poolVars, lateVars>>

\* wg.Wait() returns when both copies have: ctxMonitorDone is closed, and the
\* deferred calls close both connections
RelayReturn ==
    /\ ws.pc = "relay"
    /\ relay.b2c \in {"eof", "err"}
    /\ relay.c2b \in {"eof", "err"}
    /\ relay' = [relay EXCEPT !.monitorDone = TRUE]
    /\ conn' = CloseBoth(conn)
    /\ ws' = [ws EXCEPT !.pc = "returned"]
    /\ UNCHANGED <<ctxDone, stream, gatewayVars, bodyVars, finder, poolVars, lateVars>>

\* -------------------------------------------------------------- BufferPool

SmallBufferSize == 512
MediumBufferSize == 8192
LargeBufferSize == 65536

Classes == {"small", "medium", "large"}

ClassSize(c) ==
    CASE c = "small" -> SmallBufferSize
      [] c = "medium" -> MediumBufferSize
      [] c = "large" -> LargeBufferSize

\* a slice: its length and capacity; used: it has held bytes since it was made
\* sync.Pool.New of a class
NewBuffer(c) == [len |-> 0, cap |-> ClassSize(c), used |-> FALSE]

\* PutBuffer: the pool of a capacity, "" when there is none
PoolOfSmall(capacity) == "small"
PoolOf(capacity) ==
    CASE capacity = SmallBufferSize -> "small"
      [] capacity = MediumBufferSize -> "medium"
      [] capacity = LargeBufferSize -> "large"
      [] OTHER -> ""

\* *buf = (*buf)[:0]
ResetKeep(b) == b
Reset(b) == [b EXCEPT !.len = 0]

\* the lengths a holder gives a slice of a capacity: buf[:n]
UseLens(capacity) == {0, 1, capacity}

\* the capacities of slices made elsewhere and handed to PutBuffer
ForeignCaps == {0, SmallBufferSize, SmallBufferSize + 1, MediumBufferSize, LargeBufferSize}

BufPoolEmpty == [c \in Classes |-> {}]
NoGet == [class |-> "", buf |-> [len |-> 0, cap |-> 0, used |-> FALSE], pooled |-> FALSE]

\* GetSmallBuffer, GetMediumBuffer, GetLargeBuffer: sync.Pool.Get returns a
\* pooled slice or what New makes
GetBuffer(c) ==
    /\ Len(held) < MaxHeld
    /\ \E b \in bufPool[c] \cup {NewBuffer(c)} : \E pooled \in BOOLEAN :
        /\ pooled => b \in bufPool[c]
        /\ ~pooled => b = NewBuffer(c)
        /\ bufPool' = IF pooled THEN [bufPool EXCEPT ![c] = @ \ {b}] ELSE bufPool
        /\ held' = Append(held, [class |-> c, buf |-> b])
        /\ lastGet' = [class |-> c, buf |-> b, pooled |-> pooled]
    /\ UNCHANGED <<gatewayVars, bodyVars, finder, wsVars, lateVars>>

\* a holder slices its buffer to a length within the capacity
UseBuffer(i) ==
    /\ i \in 1..Len(held)
    /\ \E n \in UseLens(held[i].buf.cap) :
        held' = [held EXCEPT ![i].buf.len = n, ![i].buf.used = @ \/ n > 0]
    /\ UNCHANGED <<bufPool, lastGet, gatewayVars, bodyVars, finder, wsVars, lateVars>>

Without(s, i) == SubSeq(s, 1, i - 1) \o SubSeq(s, i + 1, Len(s))

\* PutSmallBuffer, PutMediumBuffer, PutLargeBuffer with a buffer that the Get
\* of the same class returned
PutClassBuffer(i) ==
    /\ i \in 1..Len(held)
    /\ bufPool' = [bufPool EXCEPT ![held[i].class] = @ \cup {Reset(held[i].buf)}]
    /\ held' = Without(held, i)
    /\ UNCHANGED <<lastGet, gatewayVars, bodyVars, finder, wsVars, lateVars>>

\* PutBuffer with any slice b: pooled by capacity, or left to the collector
PutBufferOf(b) ==
    bufPool' = IF PoolOf(b.cap) = "" THEN bufPool
               ELSE [bufPool EXCEPT ![PoolOf(b.cap)] = @ \cup {Reset(b)}]

\* BufferManager.ReleaseAll: PutBuffer with a buffer a Get returned
PutBuffer(i) ==
    /\ i \in 1..Len(held)
    /\ PutBufferOf(held[i].buf)
    /\ held' = Without(held, i)
    /\ UNCHANGED <<lastGet, gatewayVars, bodyVars, finder, wsVars, lateVars>>

\* PutBuffer with a slice made elsewhere
PutForeign ==
    /\ \E capacity \in ForeignCaps : \E n \in UseLens(capacity) :
        PutBufferOf([len |-> n, cap |-> capacity, used |-> n > 0])
    /\ UNCHANGED <<held, lastGet, gatewayVars, bodyVars, finder, wsVars, lateVars>>

\* ------------------------------------------------------- specifications

\* the cache and the handlers at start
CacheQuiet ==
    /\ now = 0
    /\ items = << >>
    /\ stopClosed = FALSE
    /\ sweeperPc = "loop"
    /\ stopCalls = 0
    /\ kd = KdIdle
    /\ setLog = << >>
    /\ req = [r \in Reqs |-> ReqIdle]

\* no request body is on its way to the next handler
BodyQuiet ==
    /\ inReq = [kind |-> "other", mandatory |-> FALSE, data |-> << >>, cl |-> 0]
    /\ dr = DrNew
    /\ fwd = [FwdArrived(inReq) EXCEPT !.pc = "idle"]

\* no upgrade request is being handled
WsQuiet ==
    /\ ws = WsIdle
    /\ ctxDone = FALSE
    /\ conn = ConnNone
    /\ relay = RelayIdle
    /\ stream = StreamIdle

\* ------------------------------------------------------------ copyBufPool

\* the length of a buffer copyBufPool.New makes
CopyBufLen == 32768

\* the users: the copy of a WebSocket relay (getCopyBuffer, putCopyBuffer) and
\* the goroutine of the recompression path (copyBufPool.Get, copyBufPool.Put)
CopyUsers == {"relay", "recompress"}

\* free: how many buffers of each length the pool holds; users: the buffers
\* taken, each with its user, its length, and how far its user is: "got",
\* "copied" (io.CopyBuffer returned), "panic" (io.CopyBuffer panicked)
CopyPoolEmpty == [free |-> [l \in {0, CopyBufLen} |-> 0], users |-> << >>]

\* the pool holds no buffer
NoneFree == \A l \in {0, CopyBufLen} : copyPool.free[l] = 0

\* the lengths copyBufPool.Get may return: that of any buffer the pool holds,
\* or, the pool holding none, that of a new one
GetLens ==
    IF NoneFree THEN {CopyBufLen}
    ELSE {l \in {0, CopyBufLen} : copyPool.free[l] > 0}

\* copyBufPool.Get(), by getCopyBuffer or by the recompression goroutine
CopyGet(who) ==
    /\ Len(copyPool.users) < MaxCopiers
    /\ \A i \in DOMAIN copyPool.users : copyPool.users[i].pc # "panic"
    /\ \E l \in GetLens :
          copyPool' = [copyPool EXCEPT
              !.free[l] = IF NoneFree THEN @ ELSE @ - 1,
              !.users = Append(@, [who |-> who, len |-> l, pc |-> "got"])]
    /\ UNCHANGED <<gatewayVars, bodyVars, finder, wsVars, poolVars, stopper>>

\* io.CopyBuffer(dst, src, *buf): a buffer that is not nil and has length 0
\* makes it panic, before anything is copied
CopyBuffer(i) ==
    /\ i \in DOMAIN copyPool.users
    /\ copyPool.users[i].pc = "got"
    /\ copyPool' = [copyPool EXCEPT
           !.users[i].pc = IF copyPool.users[i].len = 0 THEN "panic" ELSE "copied"]
    /\ UNCHANGED <<gatewayVars, bodyVars, finder, wsVars, poolVars, stopper>>

\* the length a buffer goes back with: putCopyBuffer cuts it to [:0] first,
\* the recompression goroutine puts it back as it is
PutLen(who, l) == IF who = "relay" THEN 0 ELSE l

\* the deferred put, once io.CopyBuffer has returned
CopyPut(i) ==
    /\ i \in DOMAIN copyPool.users
    /\ copyPool.users[i].pc = "copied"
    /\ LET u == copyPool.users[i]
       IN  copyPool' = [copyPool EXCEPT
               !.free[PutLen(u.who, u.len)] = @ + 1,
               !.users = Without(@, i)]
    /\ UNCHANGED <<gatewayVars, bodyVars, finder, wsVars, poolVars, stopper>>

\* the pools are empty and no caller holds a buffer
PoolQuiet ==
    /\ bufPool = BufPoolEmpty
    /\ held = << >>
    /\ lastGet = NoGet

\* no caller is in Stop, the copy pool is empty and no buffer of it is held
LateQuiet ==
    /\ stopper = StopperIdle
    /\ copyPool = CopyPoolEmpty

CacheVarsInit ==
    CacheQuiet /\ BodyQuiet /\ finder = FinderIdle /\ WsQuiet /\ PoolQuiet /\ LateQuiet

\* no response is being rewritten
InjQuiet ==
    /\ body = << >>
    /\ script = << >>
    /\ upMode = "data"
    /\ upPos = 0
    /\ si = SiInit
    /\ out = << >>
    /\ rdState = "reading"
    /\ encEnabled = TRUE
    /\ resp = [status |-> 200, html |-> TRUE, encoding |-> "", hasLen |-> FALSE]
    /\ hook = [path |-> "inject", limit |-> NoLimit]
    /\ pipe = PipeOpen
    /\ rb = RbOpen

CacheInit == CacheVarsInit /\ InjQuiet

\* a response body reaches the injector: any body, script and upstream reader
InjInit ==
    /\ CacheVarsInit
    /\ body \in Bodies
    /\ script \in Scripts
    /\ upMode \in {"data", "zero", "fail"}
    /\ upPos = 0
    /\ si = SiInit
    /\ out = << >>
    /\ rdState = "reading"
    /\ encEnabled = TRUE
    /\ resp = [status |-> 200, html |-> TRUE, encoding |-> "", hasLen |-> FALSE]
    /\ hook = [path |-> "inject", limit |-> NoLimit]
    /\ pipe = PipeOpen
    /\ rb = RbOpen

InjNext == InjRead

InjSpec == InjInit /\ [][InjNext]_vars

\* the consumer keeps calling Read with room in its buffer, and upstream does
\* not answer with no bytes and no error for ever
InjLiveInit == InjInit /\ body \in BodiesOf(MaxPieces - 1)

InjLiveSpec == InjLiveInit /\ [][InjNext]_vars /\ WF_vars(InjReadOn)

\* an upstream response reaches the hook: any response, body and script; a
\* reader that fails only where a decompressor reads
ProxyInit ==
    /\ CacheVarsInit
    /\ body \in Bodies
    /\ script \in Scripts
    /\ encEnabled \in BOOLEAN
    /\ resp \in Resps
    /\ upMode \in (IF resp.encoding \in Supported THEN {"data", "fail"} ELSE {"data"})
    /\ upPos = 0
    /\ si = SiInit
    /\ out = << >>
    /\ rdState = "reading"
    /\ hook = HookPending
    /\ pipe = PipeOpen
    /\ rb = RbOpen

ProxyNext ==
    \/ ModifyResponse
    \/ CopyUntouched
    \/ InjRead
    \/ WriterCreateFails
    \/ CopyWriteError
    \/ PipeFinish
    \/ BodyClose

ProxySpec == ProxyInit /\ [][ProxyNext]_vars

CacheNext ==
    \/ Tick
    \/ DeleteExpired
    \/ KdMethodNotAllowed
    \/ KdRandFailure
    \/ KdIssue
    \/ KdRespond
    \/ \E r \in Reqs : ReqBegin(r)
    \/ \E r \in Reqs : GetCheck(r)
    \/ \E r \in Reqs : GetLocked(r)

CacheSpec == CacheInit /\ [][CacheNext]_vars

\* the request the middleware is followed on
MwReqs == {"r1"}

\* one request of any shape through the middleware, against a cache that the
\* key endpoint, the clock and the sweeper change meanwhile
MwNext ==
    \/ Tick
    \/ DeleteExpired
    \/ KdIssue
    \/ KdRespond
    \/ \E r \in MwReqs : MwArrive(r)
    \/ \E r \in MwReqs : GetCheck(r)
    \/ \E r \in MwReqs : GetLocked(r)

MwSpec == CacheInit /\ [][MwNext]_vars

\* the shutdown of the cache: Stop and the sweeper, with Sets and the clock
StopNext ==
    \/ Tick
    \/ DeleteExpired
    \/ SweeperExit
    \/ Stop
    \/ KdIssue
    \/ KdRespond

\* select picks a ready case at random, so a closed stop channel is not passed
\* over for ever
StopSpec == CacheInit /\ [][StopNext]_vars /\ WF_vars(SweeperExit)

\* the shutdown of the cache with Stop taken statement by statement, called
\* by one goroutine after the other or by several at a time
StopCallNext ==
    \/ Tick
    \/ DeleteExpired
    \/ SweeperExit
    \/ \E c \in Callers : StopSelect(c)
    \/ \E c \in Callers : StopClose(c)
    \/ KdIssue
    \/ KdRespond

StopCallSpec == CacheInit /\ [][StopCallNext]_vars

\* a request of any kind reaches the body path of the middleware
BodyInit ==
    /\ CacheQuiet
    /\ InjQuiet
    /\ inReq \in InReqs
    /\ dr = DrNew
    /\ fwd = FwdArrived(inReq)
    /\ finder = FinderIdle
    /\ WsQuiet
    /\ PoolQuiet
    /\ LateQuiet

BodyNext ==
    \/ MwDecrypt
    \/ MwPlain
    \/ \E n \in 1..MaxPlainLen : NextRead(n)

BodySpec == BodyInit /\ [][BodyNext]_vars

\* findJSONEnd is called with any input
JsonInit ==
    /\ CacheQuiet
    /\ InjQuiet
    /\ BodyQuiet
    /\ finder \in {[pc |-> "called", data |-> d, result |-> -1] : d \in JsonInputs}
    /\ WsQuiet
    /\ PoolQuiet
    /\ LateQuiet

JsonNext == FindJSONEnd

JsonSpec == JsonInit /\ [][JsonNext]_vars

\* a request of any kind reaches the WebSocket proxy
WsInit ==
    /\ CacheQuiet
    /\ InjQuiet
    /\ BodyQuiet
    /\ finder = FinderIdle
    /\ ws \in WsRequests
    /\ ctxDone = FALSE
    /\ conn = ConnNone
    /\ relay = RelayIdle
    /\ stream = StreamIdle
    /\ PoolQuiet
    /\ LateQuiet

WsNext ==
    \/ WsArrive
    \/ Cancel
    \/ DialEnd
    \/ BackendWrite
    \/ ClientWrite
    \/ ClientClose
    \/ BackendClose
    \/ HandshakeEnd
    \/ WatcherFire
    \/ WatcherExit
    \/ CopyB2C
    \/ CopyC2B
    \/ RelayReturn

\* the goroutines of the relay are scheduled: a watcher whose context is done,
\* a copy whose Read or Write can return, and a wg.Wait whose counter is zero
\* do not wait for ever. The peers, the network and the context owe nothing
WsSpec ==
    /\ WsInit
    /\ [][WsNext]_vars
    /\ WF_vars(WatcherFire)
    /\ WF_vars(CopyB2C)
    /\ WF_vars(CopyC2B)
    /\ WF_vars(RelayReturn)

\* the buffer pool from its construction on, under any callers
PoolInit ==
    /\ CacheQuiet
    /\ InjQuiet
    /\ BodyQuiet
    /\ finder = FinderIdle
    /\ WsQuiet
    /\ PoolQuiet
    /\ LateQuiet

PoolNext ==
    \/ \E c \in Classes : GetBuffer(c)
    \/ \E i \in 1..MaxHeld : UseBuffer(i)
    \/ \E i \in 1..MaxHeld : PutClassBuffer(i)
    \/ \E i \in 1..MaxHeld : PutBuffer(i)
    \/ PutForeign

PoolSpec == PoolInit /\ [][PoolNext]_vars

\* relays and recompression goroutines take and return copy buffers
CopyNext ==
    \/ \E who \in CopyUsers : CopyGet(who)
    \/ \E i \in 1..MaxCopiers : CopyBuffer(i)
    \/ \E i \in 1..MaxCopiers : CopyPut(i)

CopySpec == PoolInit /\ [][CopyNext]_vars

\* ------------------------------------------------------------- claims

Done(r) == req[r].pc = "done"
Present(r) == Done(r) /\ req[r].outcome # "INVALID_TOKEN"

\* C1: a request whose token an earlier, already forwarded request decrypted
\* with (the same key, so the token was not issued again in between) is
\* rejected with 401 INVALID_TOKEN.
C1_OneShotSequential ==
    \A r \in Reqs :
        (Done(r) /\ req[r].gotKey \in req[r].priorKeys) => req[r].outcome = "INVALID_TOKEN"

\* C2: of the requests processed concurrently with one token, at most one
\* obtains the key stored under it.
C2_AtMostOneObtains ==
    \A r, q \in Reqs :
        (/\ r # q /\ Present(r) /\ Present(q)
         /\ req[r].tok = req[q].tok
         /\ req[r].gotKey \notin req[r].priorKeys
         /\ req[q].gotKey \notin req[q].priorKeys)
        => req[r].gotKey # req[q].gotKey

\* C3: a token set at t with TTL d and not set again is returned by every
\* lookup made within [t, t+d) and by no lookup made at t+d or later.
C3_TTLWindow ==
    \A r \in Reqs :
        /\ (Done(r) /\ req[r].window = "within")
               => (Present(r) /\ req[r].gotKey = req[r].setKey)
        /\ (Done(r) /\ req[r].window \in {"at", "past"}) => ~Present(r)

\* C4: a Get that reports present returns an entry whose expiry instant had
\* not passed when Get examined it.
C4_GetNeverExpired ==
    \A r \in Reqs : Present(r) => req[r].fresh

C4_Witness ==
    \E r \in Reqs : Present(r) /\ req[r].fresh /\ req[r].viaLock

\* C5: the step of Get under the exclusive lock deletes the entry stored for
\* the token and reports absent when that entry is expired, and leaves the map
\* as it is when the entry stored now is not expired.
C5_LockedRecheck ==
    [][\A r \in Reqs :
          (req[r].pc = "lock" /\ req'[r].pc = "done") =>
              LET t == req[r].tok
              IN  IF t \in DOMAIN items /\ After(now, items[t].expiresAt)
                  THEN t \notin DOMAIN items' /\ req'[r].outcome = "INVALID_TOKEN"
                  ELSE items' = items]_vars

C5_Witness ==
    \E r \in Reqs :
        /\ Present(r) /\ req[r].viaLock
        /\ req[r].tok \in DOMAIN items
        /\ items[req[r].tok].key = req[r].gotKey

\* C6: a Get for token T that reports present returns the key of a Set made
\* for T.
C6_KeyOfToken ==
    \A r \in Reqs :
        Present(r) => (/\ req[r].gotKey \in 1..Len(setLog)
                       /\ setLog[req[r].gotKey].token = req[r].tok)

C6_Witness ==
    \E r \in Reqs : Present(r) /\ DOMAIN items = Tokens

\* C7: a run of the sweeper deletes every entry whose expiry has passed and
\* keeps every other entry as it is.
C7_SweepExact ==
    [][DeleteExpired =>
          /\ DOMAIN items' \subseteq DOMAIN items
          /\ \A t \in DOMAIN items :
                IF After(now, items[t].expiresAt)
                THEN t \notin DOMAIN items'
                ELSE t \in DOMAIN items' /\ items'[t] = items[t]]_vars

\* no Get has run, so only the sweeper deletes: it removed the expired t1 and
\* kept t2, which was set before t1 could be swept
C7_Witness ==
    \E t1, t2 \in Tokens :
        /\ \A r \in Reqs : req[r].pc = "idle"
        /\ LastSet(t1).key # 0 /\ t1 \notin DOMAIN items
        /\ t2 \in DOMAIN items
        /\ LastSet(t2).at <= LastSet(t1).at + TTL

\* C8: once stop is closed the sweeper leaves its loop, and after that it
\* stays out and deletes nothing.
C8_SweeperTerminates ==
    /\ stopClosed ~> (sweeperPc = "exited")
    /\ [][sweeperPc = "exited" =>
              /\ sweeperPc' = "exited"
              /\ DOMAIN items \subseteq DOMAIN items']_vars

C8_Witness ==
    stopClosed /\ sweeperPc = "exited" /\ stopCalls = MaxStopCalls /\ DOMAIN items # {}

Expected(b, sc) ==
    LET i == Index(b, Tag)
    IN  IF i = -1 THEN b ELSE Slice(b, 0, i) \o sc \o Slice(b, i, Len(b))

IsPrefix(a, b) == Len(a) <= Len(b) /\ a = SubSeq(b, 1, Len(a))

\* C10: whatever the pieces (of one byte or more) in which upstream returns B
\* and whatever the sizes of the consumer's buffers, what the consumer has
\* received is always a prefix of B with the script inserted once, before the
\* first </body> (of B itself if B has none), and all of it at end of stream.
C10_InjectOnce ==
    upMode # "zero" =>
        /\ IsPrefix(out, Expected(body, script))
        /\ rdState = "EOF" => out = Expected(body, script)

C10_Witness ==
    /\ upMode = "data" /\ rdState = "EOF"
    /\ Index(body, Tag) > 0
    /\ Len(body) > BufSize + Len(Tag)
    /\ script # << >>
    /\ out = Expected(body, script)

\* C11: while the injector is searching and upstream has not ended, the bytes
\* it has handed out of its buffer stop short of the last len(tag)-1 bytes
\* buffered: either none of the buffer has been handed out, or at least
\* len(tag)-1 bytes lie between the last one handed out and the buffer's end.
C11_SafeTail ==
    (si.state = "searching" /\ ~si.upstreamEOF) =>
        \/ si.searchPos = 0
        \/ si.searchPos + (Len(Tag) - 1) <= BufferEnd(si)

\* the tag is split across two upstream reads: its first j bytes are the tail
\* of the buffer, bytes before them have been handed out, the rest is to come
C11_Witness ==
    /\ si.state = "searching" /\ ~si.upstreamEOF /\ upMode = "data"
    /\ si.searchPos > 0
    /\ Index(body, Tag) > 0
    /\ \E j \in 1..(Len(Tag) - 1) :
          /\ upPos = Index(body, Tag) + j
          /\ BufferEnd(si) >= j
          /\ Slice(si.buffer, BufferEnd(si) - j, BufferEnd(si)) = Slice(Tag, 0, j)
          /\ out = Slice(body, 0, Len(out))
          /\ Len(out) <= Index(body, Tag)

\* what the client reads as the response body, and how its stream stands
ClientBody == IF hook.path = "recompress" THEN pipe.data ELSE out
ClientEnd == IF hook.path = "recompress" THEN pipe.end ELSE rdState

\* C12: a rewritten response whose body is longer than the limit reaches the
\* client as that body cut at the limit, with no script in it.
C12_TruncatedNoInjection ==
    (/\ hook.path \in {"inject", "recompress"}
     /\ Len(Wire) > hook.limit
     /\ ClientEnd = "EOF")
    => ClientBody = Limited(Wire, hook.limit)

\* C13: an eligible response whose Content-Encoding is none of the supported
\* codecs reaches the client with its body as upstream sent it (stated for
\* the bodies within the size limit, which C12 is about).
C13_UnknownEncodingUnchanged ==
    (/\ hook.path # "pending"
     /\ encEnabled /\ resp.status = 200 /\ resp.html
     /\ resp.encoding \notin Supported \cup {""}
     /\ Len(Wire) <= hook.limit
     /\ ClientEnd = "EOF")
    => ClientBody = Wire

\* C14: when the stream of a recompressed response ends, the client has a
\* whole stream of the codec of the upstream response, and it decodes to the
\* decoded upstream body with the script inserted before its first </body>.
C14_SameCodecRoundTrip ==
    (hook.path = "recompress" /\ pipe.end = "EOF") =>
        /\ Complete(resp.encoding, pipe.data)
        /\ Decode(resp.encoding, pipe.data)
               = Expected(Decode(resp.encoding, Wire), script)

C14_Witness ==
    /\ hook.path = "recompress" /\ pipe.end = "EOF"
    /\ resp.encoding = "gzip"
    /\ script # << >>
    /\ Index(body, Tag) > 0
    /\ Len(pipe.data) = Len(Wire) + Len(script)

\* C15: when the copy from the injector to the compressor ends with an error,
\* the read side of the pipe ends with an error, after a beginning of the
\* encoded stream, and never with a clean end of stream.
C15_PipeError ==
    (hook.path = "recompress" /\ rdState = "err" /\ pipe.end # "open") =>
        /\ pipe.end = "err"
        /\ IsPrefix(pipe.data, <<resp.encoding>> \o out)

C15_Witness ==
    /\ hook.path = "recompress" /\ rdState = "err" /\ pipe.end = "err"
    /\ upMode = "fail"
    /\ Len(pipe.data) > 1

C17_PlainAlways422 ==
    \A r \in Reqs :
        (Done(r) /\ req[r].class = "plain" /\ req[r].mandatory)
            => (Status(req[r].outcome) = 422 /\ req[r].outcome = "ENCRYPTION_REQUIRED")

\* C17: a request classified as plain on a path that matches a must-encrypt
\* pattern never reaches the next handler; it is answered 422
\* ENCRYPTION_REQUIRED, or 500 BODY_READ_FAILED when its body cannot be read.
C17_PlainNeverForwarded ==
    \A r \in Reqs :
        (Done(r) /\ req[r].class = "plain" /\ req[r].mandatory)
            => /\ Status(req[r].outcome) # 0
               /\ req[r].outcome \in {"ENCRYPTION_REQUIRED", "BODY_READ_FAILED"}

C17_Witness ==
    \E r \in Reqs :
        /\ Done(r) /\ req[r].class = "plain" /\ req[r].mandatory
        /\ req[r].outcome = "ENCRYPTION_REQUIRED"
        /\ DOMAIN items # {}

\* C18: when the middleware answers a request that carries a token, and the
\* cache then holds no entry for the token or one whose expiry has passed,
\* the answer is 401 INVALID_TOKEN and the request does not go on.
C18_InvalidToken ==
    [][\A r \in Reqs :
          (/\ req[r].pc # "done" /\ req'[r].pc = "done"
           /\ req'[r].class = "encrypted" /\ req'[r].tok # ""
           /\ \/ req'[r].tok \notin DOMAIN items
              \/ After(now, items[req'[r].tok].expiresAt))
          => (req'[r].outcome = "INVALID_TOKEN" /\ Status(req'[r].outcome) = 401)]_vars

\* the token was issued, expired, and was refused under the lock
C18_Witness ==
    \E r \in Reqs :
        /\ Done(r) /\ req[r].class = "encrypted" /\ req[r].outcome = "INVALID_TOKEN"
        /\ req[r].window = "past"
        /\ req[r].tok \notin DOMAIN items

\* C19: a request with a valid token whose encrypted field is not base64 is
\* answered 400 with the error base64_decode_error.
C19_Base64Error ==
    \A r \in Reqs :
        (Done(r) /\ req[r].gotKey # 0 /\ req[r].enc = "badb64")
            => (Status(req[r].outcome) = 400 /\ req[r].outcome = "base64_decode_error")

\* C20: a request with a valid token whose ciphertext does not authenticate
\* under the key stored for the token (changed on the way, or sealed under
\* another key) is answered 400 DECRYPTION_FAILED and does not go on.
C20_AuthFailure ==
    [][\A r \in Reqs :
          (/\ req[r].pc \in {"check", "lock"} /\ req'[r].pc = "done"
           /\ req'[r].gotKey # 0
           /\ \/ req[r].enc = "tampered"
              \/ req[r].encKey # req'[r].gotKey)
          => (req'[r].outcome = "DECRYPTION_FAILED" /\ Status(req'[r].outcome) = 400)]_vars

C20_Witness ==
    \E r \in Reqs :
        /\ Done(r) /\ req[r].gotKey # 0 /\ req[r].enc = "tampered"
        /\ req[r].outcome = "DECRYPTION_FAILED"
        /\ req[r].viaLock

\* what the frame of an encrypted request holds
SealedContentType == SubSeq(inReq.data, 2, 1 + inReq.data[1])
SealedBody == SubSeq(inReq.data, 2 + inReq.data[1], Len(inReq.data))

\* C21: the plaintext of an encrypted request is accepted exactly when it is
\* a length byte L, L bytes of Content-Type and any bytes of body, that is
\* when it has at least 1 + L bytes; the reader then holds that Content-Type
\* and that body; any shorter plaintext is answered 400 and not forwarded.
C21_FrameParse ==
    (inReq.kind = "encrypted" /\ fwd.pc \in {"next", "answered"}) =>
        LET d == inReq.data
            Framed(ct, b) == d = <<Len(ct)>> \o ct \o b
        IN  /\ fwd.pc = "next" <=> \E ct, b \in ByteSeqs : Framed(ct, b)
            /\ fwd.pc = "next" <=> (Len(d) >= 1 /\ Len(d) >= 1 + d[1])
            /\ fwd.pc = "answered" => fwd.status = 400 /\ fwd.read = << >>
            /\ fwd.pc = "next" =>
                   \E ct, b \in ByteSeqs :
                       /\ Framed(ct, b)
                       /\ dr.contentType = ct
                       /\ dr.payloadBuf.buf = b

C21_Witness ==
    /\ inReq.kind = "encrypted"
    /\ fwd.pc = "next"
    /\ Len(dr.contentType) >= 1
    /\ Len(dr.payloadBuf.buf) >= 1

\* C22: the next handler of an encrypted request that was decrypted reads
\* the recovered body and nothing else, up to EOF, whatever its length, and
\* sees the recovered Content-Type and Content-Length -1.
C22_NextReadsRecovered ==
    (inReq.kind = "encrypted" /\ fwd.pc = "next") =>
        /\ IsPrefix(fwd.read, SealedBody)
        /\ fwd.eof => fwd.read = SealedBody
        /\ fwd.contentType = SealedContentType
        /\ fwd.contentLength = -1

\* C24 as stated: the next handler of a plain request on a path that is not
\* mandatory reads the original body and sees its length as Content-Length.
C24_PlainLength ==
    (inReq.kind \in {"plainjson", "other"} /\ ~inReq.mandatory /\ fwd.pc = "next") =>
        /\ IsPrefix(fwd.read, inReq.data)
        /\ fwd.eof => fwd.read = inReq.data
        /\ fwd.contentLength = Len(inReq.data)

\* C24: the next handler of a plain request on a path that is not mandatory
\* reads the original body and nothing else; Content-Length is the number of
\* its bytes when the request is a POST of application/json, and the
\* Content-Length the request came with otherwise.
C24_PlainBody ==
    (inReq.kind \in {"plainjson", "other"} /\ ~inReq.mandatory /\ fwd.pc = "next") =>
        /\ IsPrefix(fwd.read, inReq.data)
        /\ fwd.eof => fwd.read = inReq.data
        /\ fwd.contentLength =
               IF inReq.kind = "plainjson" THEN Len(inReq.data) ELSE inReq.cl

C24_Witness ==
    /\ inReq.kind = "plainjson"
    /\ ~inReq.mandatory
    /\ inReq.cl = -1
    /\ fwd.pc = "next"
    /\ fwd.eof
    /\ Len(fwd.read) >= 2
    /\ fwd.contentLength = Len(fwd.read)

\* the failure category of a rejected encrypted request
Category(q) ==
    CASE q.outcome = "INVALID_TOKEN" -> "token"
      [] q.outcome = "DECRYPTION_FAILED" /\ q.enc = "badb64" -> "decode"
      [] q.outcome = "DECRYPTION_FAILED" /\ q.enc = "badframe" -> "framing"
      [] q.outcome = "DECRYPTION_FAILED" -> "decrypt"
      [] OTHER -> "envelope"

\* C23: every encrypted request that is rejected is counted as a failure and
\* under the counter of its category: token errors for an invalid token,
\* decrypt errors for a failed authentication, format errors for a frame that
\* is too short, a counter of its own for a decode failure, and some category
\* counter for an envelope that is malformed or lacks a field.
C23_OwnCategory ==
    \A r \in Reqs :
        (Done(r) /\ req[r].class = "encrypted" /\ Status(req[r].outcome) \in {400, 401}) =>
            LET c == req[r].counted
                cat == Category(req[r])
            IN  /\ "FailedRequests" \in c
                /\ "TokenErrors" \in c <=> cat = "token"
                /\ "DecryptErrors" \in c <=> cat = "decrypt"
                /\ "FormatErrors" \in c <=> cat = "framing"
                /\ c # {"FailedRequests"}

\* the reading of an input by position. A byte is escaped when an odd number
\* of backslashes runs up to it; a quote that is not escaped opens or closes
\* a string; a brace counts when it is neither escaped nor inside a string.
JsonStart(data) ==
    Cardinality({k \in 1..Len(data) : \A j \in 0..(k - 1) : At(data, j) \in Whitespace})
RunBefore(data, i) ==
    Cardinality({k \in 1..(i - JsonStart(data)) :
                    \A j \in (i - k)..(i - 1) : At(data, j) = "\\"})
Escaped(data, i) == RunBefore(data, i) % 2 = 1
InsideString(data, i) ==
    Cardinality({j \in JsonStart(data)..(i - 1) :
                    At(data, j) = "\"" /\ ~Escaped(data, j)}) % 2 = 1
Brace(data, i, b) ==
    At(data, i) = b /\ ~Escaped(data, i) /\ ~InsideString(data, i)
Depth(data, i) ==
    Cardinality({j \in JsonStart(data)..i : Brace(data, j, "{")})
        - Cardinality({j \in JsonStart(data)..i : Brace(data, j, "}")})
Closers(data) ==
    {i \in JsonStart(data)..(Len(data) - 1) : Brace(data, i, "}") /\ Depth(data, i) = 0}

\* C25: for an input whose first byte after leading white space is { and
\* whose braces outside strings come back to balance, the result is the
\* index of the first } that balances the opening one, a brace inside a
\* string or after a backslash not counting; for every other input it is -1.
C25_JsonEnd ==
    finder.pc = "returned" =>
        LET data == finder.data
            opens == JsonStart(data) < Len(data) /\ At(data, JsonStart(data)) = "{"
        IN  IF opens /\ Closers(data) # {}
            THEN /\ finder.result \in Closers(data)
                 /\ \A i \in Closers(data) : finder.result <= i
            ELSE finder.result = -1

C25_Witness ==
    /\ finder.pc = "returned"
    /\ finder.result = Len(finder.data) - 1
    /\ \E i, j \in 2..(finder.result - 1) :
           /\ i < j
           /\ At(finder.data, i) = "\\"
           /\ InsideString(finder.data, i)
           /\ InsideString(finder.data, j)

CopyEnded(w) == w \in {"eof", "err"}

\* C27: once the context is done while the relay copies, the watcher closes
\* both connections, both copies return and the relay returns.
C27_CancelEndsRelay ==
    (ctxDone /\ ws.pc = "relay") ~>
        (/\ ws.pc = "returned"
         /\ CopyEnded(relay.b2c)
         /\ CopyEnded(relay.c2b)
         /\ conn.client = "closed"
         /\ conn.backend = "closed")

C27_Witness ==
    /\ ctxDone
    /\ ws.pc = "returned"
    /\ relay.watcher = "fired"
    /\ relay.b2c = "err"
    /\ relay.c2b = "err"
    /\ conn.clientPeer = "open"
    /\ conn.backendPeer = "open"

\* C28: a dial during which the context was cancelled is aborted, whatever
\* the scheme: it does not go on to succeed, and no handshake request is
\* written to a backend connection.
C28_CancelAbortsDial ==
    (ws.cancelInDial /\ ws.pc # "dialing") =>
        /\ ws.dialEnd # "ok"
        /\ ws.pc # "handshake"

\* C29: once a peer has closed its end or a copy has ended, the relay closes
\* both connections and returns, whatever the other peer and the context do.
C29_OneEndEndsRelay ==
    (/\ ws.pc = "relay"
     /\ \/ CopyEnded(relay.b2c)
        \/ CopyEnded(relay.c2b)
        \/ conn.clientPeer = "closed"
        \/ conn.backendPeer = "closed") ~>
        (/\ ws.pc = "returned"
         /\ conn.client = "closed"
         /\ conn.backend = "closed")

\* C30: after the handshake each peer has received the first bytes the other
\* wrote, each once and in the order written, so the bytes the handshake
\* reader held come before those taken from the socket later; a copy that
\* ends with EOF has delivered every byte written.
C30_InOrderOnce ==
    ws.status = 101 =>
        /\ Len(stream.toClient) <= stream.up
        /\ stream.toClient = Run(0, Len(stream.toClient))
        /\ Len(stream.toBackend) <= stream.down
        /\ stream.toBackend = Run(0, Len(stream.toBackend))
        /\ stream.brBuf # << >> => Len(stream.toClient) < stream.brBuf[1]
        /\ relay.b2c = "eof" => stream.toClient = Run(0, stream.up)
        /\ relay.c2b = "eof" => stream.toBackend = Run(0, stream.down)

C30_Witness ==
    /\ ws.status = 101
    /\ stream.reader = "multi"
    /\ stream.brBuf = << >>
    /\ stream.sock = 2
    /\ relay.b2c = "eof"
    /\ Len(stream.toClient) = 2
    /\ Len(stream.toBackend) >= 1

C32_BalancedEnvelopeForwarded ==
    [][\A r \in Reqs :
          (/\ req[r].pc \in {"check", "lock"} /\ req'[r].pc = "done"
           /\ findJSONEnd(req[r].env) = Len(req[r].env) - 1
           /\ req'[r].gotKey # 0
           /\ req[r].enc = "sealed"
           /\ req[r].encKey = req'[r].gotKey)
          => req'[r].outcome = "forwarded"]_vars

\* the place of a state in the order stateSearching, stateInjectingScript,
\* stateInjectingTag, statePassthrough
Rank(state) ==
    CASE state = "searching" -> 0
      [] state = "injectingScript" -> 1
      [] state = "injectingTag" -> 2
      [] state = "passthrough" -> 3

\* C33: a Read never moves the injector's state backwards: from searching it
\* goes through injecting the script and injecting the tag to passthrough
\* when the tag was found, or straight to passthrough when upstream ended
\* with no tag; passthrough is never left, and once the script is being (or
\* has been) injected the state never is searching again.
C33_StateForward ==
    [][/\ Rank(si'.state) >= Rank(si.state)
       /\ si.state = "passthrough" => si'.state = "passthrough"
       /\ (si.state = "searching" /\ si'.state = "passthrough") =>
              /\ si'.upstreamEOF
              /\ si'.scriptReadPos = 0 /\ si'.tagReadPos = 0
       /\ (si.state # "passthrough" /\ Rank(si.state) > 0 /\ si'.state = "passthrough") =>
              /\ si.state = "injectingTag"
              /\ si.tagReadPos = Len(Tag)
              /\ si.scriptReadPos = Len(script)
       /\ si'.state = "injectingTag" => si'.scriptReadPos = Len(script)]_vars

\* the tag was found after a first buffer of plain bytes; script and tag are
\* out and the rest of the body is passing through
C33_Witness ==
    /\ si.state = "passthrough"
    /\ script # << >>
    /\ si.scriptReadPos = Len(script)
    /\ si.tagReadPos = Len(Tag)
    /\ Index(body, Tag) > 0
    /\ rdState = "reading"
    /\ Len(out) > Index(body, Tag) + Len(script) + Len(Tag)

\* C35: whatever the upstream reader returns within the io.Reader contract,
\* reads of no bytes and no error included, the consumer is told end of
\* stream only when upstream is at its end, with all of its bytes and
\* the script bytes injected so far handed on.
C35_EofAfterUpstream ==
    rdState = "EOF" =>
        /\ upPos = Len(Src)
        /\ Len(out) = upPos + si.scriptReadPos

\* C36: a consumer that keeps reading with room in its buffer, from an
\* injector whose upstream comes to io.EOF or an error, is told io.EOF or an
\* error in the end.
C36_ReadsEnd == (rdState = "reading") ~> (rdState # "reading")

\* a Read that took the first bytes of the body in and returned no bytes and
\* no error, since they are too few to tell whether a tag begins in them
C36_Witness ==
    /\ si.state = "searching" /\ ~si.upstreamEOF
    /\ rdState = "reading"
    /\ out = << >>
    /\ upPos = BufferEnd(si)
    /\ upPos > 0 /\ upPos <= Len(Tag)
    /\ Len(body) > upPos

\* C37: once the body of a response has been closed, the body that came
\* from upstream is closed: for a response left alone, for one whose body is
\* the injector, and for one whose body is the pipe of the recompression.
C37_OriginalClosed ==
    rb.body = "closed" => rb.original = "closed"

\* C39: once the handler has returned after a hijack, whichever way (dial
\* error, handshake write or read error, a status other than 101, the
\* response not relayed, the end of the relay), the client connection is
\* closed, and so is the backend connection if the dial opened one.
C39_BothClosedOnReturn ==
    (ws.hijacked /\ ws.pc = "returned") =>
        /\ conn.client = "closed"
        /\ conn.backend # "open"
        /\ ws.dialEnd = "ok" => conn.backend = "closed"

\* the relay ran and ended on a peer closing, with no cancellation
C39_Witness ==
    /\ ws.hijacked /\ ws.pc = "returned"
    /\ ws.status = 101
    /\ ~ctxDone
    /\ relay.watcher = "exited"
    /\ conn.client = "closed" /\ conn.backend = "closed"
    /\ stream.toClient # << >>

C34_ClosedOnce ==
    /\ stopper.closes <= 1
    /\ \A c \in Callers : stopper.pc[c] # "panic"

\* C40: every buffer from the copy pool that is given to io.CopyBuffer has a
\* length other than zero, whoever held it before.
C40_CopyBufferNotEmpty ==
    \A i \in DOMAIN copyPool.users :
        copyPool.users[i].pc # "got" => copyPool.users[i].len > 0

====
